---- MODULE Spec2Model ----
(***************************************************************************)
(* Document registry and processing pipeline of bonnetjes (Next.js port).  *)
(*                                                                         *)
(* The registry snapshot (state/state.json) is shared by all API routes,   *)
(* but every route module constructs its own StateService and therefore    *)
(* holds its own in-memory copy of the registry.  Some routes load that    *)
(* copy once (a lazily set isInitialized flag), others reload it on every  *)
(* request.  The model keeps one copy per lazily initialised route.        *)
(*                                                                         *)
(* Specifications:                                                         *)
(*   Spec       request-level model of the registry routes                 *)
(*   SpecAlloc  the rename batch with the allocator's iteration cap        *)
(*   SpecSave   StateService.saveState step by step, with crashes          *)
(*   SpecLoad   StateService.loadState on a truncated snapshot             *)
(*   SpecRun    the client's analyze-all loop with the stop flag           *)
(*   SpecClear  the cache route's requests and analyze-batch requests      *)
(*   SpecConc   two overlapping analyze-batch requests, step by step       *)
(*   SpecCache  the analysis cache and its in-place save                   *)
(*   SpecScan   the scan handler item by item, with its batched saves      *)
(*   SpecFail   requests whose saveState throws                            *)
(*   SpecCrash  a crash between the cache save and the registry save       *)
(*   SpecMerge  merge requests on folders holding a.pdf or a retired name  *)
(*   SpecRace   two overlapping rename requests, step by step              *)
(*   SpecStop   the store's stop flag across analyze-all and rename-all    *)
(*   SpecRetry  one analyze-batch request with the extraction's retries    *)
(*   SpecRound  saveState followed by loadState in a new process           *)
(*   SpecName   generateFileName on the text of the fields                 *)
(***************************************************************************)
EXTENDS Integers, Sequences, FiniteSets, TLC

(***************************************************************************)
(* Bounds of the model (not program constants).                            *)
(***************************************************************************)
MaxFresh == 6
MaxOps == 2
MaxBatch == 2

(***************************************************************************)
(* Program constants.                                                      *)
(***************************************************************************)
IndexCap == 1000

NoData == "none"
NoError == "none"

(***************************************************************************)
(* Paths.  All files live in one scan folder; a path is its file name,     *)
(* split the way the code splits it: the base name, the extension, the     *)
(* number of `_delete_` prefixes and the `_n` collision suffix (0: none).  *)
(***************************************************************************)
Path(b, e) == [base |-> b, ext |-> e, idx |-> 0, del |-> 0]

\* extracted field bundles; NameOf is the base name the filename policy
\* builds from a bundle, DocTypeOf the type processFile infers from it
Fields == {"DX", "DY"}
NameOf(d) == IF d = "DX" THEN "X" ELSE "Y"
DocTypeOf(d) == IF d = "DX" THEN "invoice" ELSE "generic"

VARIABLES
  fs,        \* scan folder: existing path -> content of the file
  disk,      \* state/state.json: the persisted knownFiles
  mem,       \* lazily initialised routes: [init, files] per route
  cache,     \* the analyze route's CacheService copy
  cacheDisk, \* state/analysis-cache.json
  fresh,     \* source of uuids / random ids / new file contents
  ops,       \* number of requests served
  last,      \* what the last request did (its response and the calls it made)
  stateDir,  \* state/ directory: file name -> content (step-level specifications)
  proc,      \* position and locals of the handler that runs step by step
  log,       \* what the logger has written
  client     \* the browser's files slice (analyze-all run)

vars == <<fs, disk, mem, cache, cacheDisk, fresh, ops, last, stateDir, proc, log, client>>

\* the request-level specification runs no handler step by step
steps == <<stateDir, proc, log, client>>

LazyRoutes == {"scan", "merge", "upd", "put", "rr", "cna", "cne"}

Exists(files, p) == p \in DOMAIN files

\* fs.rename(old, new): POSIX rename, replaces an existing target
FsRename(files, old, new) ==
  [p \in (DOMAIN files \ {old}) \cup {new} |-> IF p = new THEN files[old] ELSE files[p]]

\* fs.writeFile(path, bytes)
FsWrite(files, p, content) ==
  [q \in DOMAIN files \cup {p} |-> IF q = p THEN content ELSE files[q]]

FsUnlink(files, p) == [q \in DOMAIN files \ {p} |-> files[q]]

Range(s) == {s[i] : i \in 1..Len(s)}

(***************************************************************************)
(* StateService (in-memory part).                                          *)
(***************************************************************************)
HasId(st, id) == \E i \in 1..Len(st) : st[i].id = id

\* Array.find: the first record with the id (callers test HasId for undefined)
FirstIndex(st, id) ==
  CHOOSE i \in 1..Len(st) : st[i].id = id /\ \A j \in 1..(i-1) : st[j].id # id

getFileById(st, id) == st[FirstIndex(st, id)]

isFileKnown(st, p) == \E i \in 1..Len(st) : st[i].currentPath = p

removeFileById(st, id) == SelectSeq(st, LAMBDA r : r.id # id)

\* replaces the record object found by getFileById (the first with that id)
UpdateRecord(st, id, rec) == [st EXCEPT ![FirstIndex(st, id)] = rec]

\* initializeState(): loadState() on the first request of a route only
Lazy(route) == IF mem[route].init THEN mem[route].files ELSE disk

RECURSIVE SetToSeq(_)
SetToSeq(S) ==
  IF S = {} THEN <<>>
  ELSE LET x == CHOOSE y \in S : TRUE IN <<x>> \o SetToSeq(S \ {x})

(***************************************************************************)
(* Filename policy (request-level view): the proposal keeps the folder and *)
(* the extension of the current path and takes its name from the fields.   *)
(***************************************************************************)
generateFileName(record) ==
  IF record.data = NoData THEN record.currentPath
  ELSE [base |-> NameOf(record.data), ext |-> record.currentPath.ext, idx |-> 0, del |-> 0]

\* basename(originalPath) # basename(currentPath)
IsRenamed(r) == r.originalPath # r.currentPath

(***************************************************************************)
(* Conflict-safe path allocator.                                           *)
(***************************************************************************)
\* `onDisk` is the set of paths for which fs.access succeeds
isPathAvailable(p, usedPaths, onDisk) == p \notin usedPaths /\ p \notin onDisk

\* the do/while loop, index = 1 .. IndexCap - 1: it breaks at the first index
\* whose candidate is available; when the condition `index < IndexCap` ends
\* it, uniquePath is still the candidate of the last index tried
uniqueLoop(basePath, usedPaths, onDisk) ==
  LET available == {index \in 1..(IndexCap - 1) :
                      isPathAvailable([basePath EXCEPT !.idx = index], usedPaths, onDisk)}
  IN IF available # {}
       THEN [basePath EXCEPT !.idx = CHOOSE i \in available : \A j \in available : i <= j]
       ELSE [basePath EXCEPT !.idx = IndexCap - 1]

generateUniquePath(basePath, usedPaths, files) ==
  LET onDisk == DOMAIN files IN
  IF isPathAvailable(basePath, usedPaths, onDisk) THEN basePath
  ELSE uniqueLoop(basePath, usedPaths, onDisk)

(***************************************************************************)
(* POST /api/rename-files-batch                                            *)
(***************************************************************************)
\* observation: the base candidate and every suffixed candidate the loop can
\* try are on disk or reserved
Exhausted(basePath, usedPaths, files) ==
  Cardinality({q \in DOMAIN files \cup usedPaths :
                 /\ q.base = basePath.base /\ q.ext = basePath.ext /\ q.del = basePath.del
                 /\ q.idx \in 0..(IndexCap - 1)}) = IndexCap

\* a failed item reported as a success
RenameFail_asSuccess(id, why) ==
  [id |-> id, success |-> TRUE, error |-> NoError, newPath |-> Path("", ""),
   occupied |-> FALSE, exhausted |-> FALSE]

RenameFail(id, why) ==
  [id |-> id, success |-> FALSE, error |-> why, newPath |-> Path("", ""),
   occupied |-> FALSE, exhausted |-> FALSE]

RECURSIVE RenameLoop(_, _, _, _, _, _)
RenameLoop(ids, st, files, usedPaths, results, updated) ==
  IF ids = <<>>
    THEN [st |-> st, files |-> files, usedPaths |-> usedPaths,
          results |-> results, updated |-> updated]
  ELSE
    LET id == Head(ids) IN
    IF ~HasId(st, id)
      THEN RenameLoop(Tail(ids), st, files, usedPaths,
                      Append(results, RenameFail(id, "Record not found")), updated)
    ELSE
      LET record == getFileById(st, id)
          basePath == generateFileName(record)
      IN
      IF basePath = record.currentPath
        THEN RenameLoop(Tail(ids), st, files, usedPaths,
                        Append(results, RenameFail(id, "No new filename generated")), updated)
      ELSE
        LET newPath == generateUniquePath(basePath, usedPaths, files) IN
        IF ~Exists(files, record.currentPath)
          THEN RenameLoop(Tail(ids), st, files, usedPaths,
                          Append(results, RenameFail(id, "ENOENT")), updated)
        ELSE RenameLoop(Tail(ids),
                        UpdateRecord(st, id, [record EXCEPT !.currentPath = newPath,
                                                            !.lastModified = @ + 1]),
                        FsRename(files, record.currentPath, newPath),
                        usedPaths \cup {newPath},
                        \* `occupied` observes the target at the moment of the rename
                        Append(results, [id |-> id, success |-> TRUE, error |-> NoError,
                                         newPath |-> newPath,
                                         occupied |-> (newPath \in DOMAIN files
                                                       \/ newPath \in usedPaths),
                                         exhausted |-> Exhausted(basePath, usedPaths, files)]),
                        Append(updated, id))

\* a handler that saves the reloaded registry without the new paths
ApplyRenames_none(reloaded, st, updated) == reloaded

\* the second loadState() and the copy of currentPath into the reloaded records
RECURSIVE ApplyRenames(_, _, _)
ApplyRenames(reloaded, st, updated) ==
  IF updated = <<>> THEN reloaded
  ELSE LET id == Head(updated) IN
       IF HasId(reloaded, id)
         THEN ApplyRenames(
                UpdateRecord(reloaded, id,
                  [getFileById(reloaded, id) EXCEPT !.currentPath = getFileById(st, id).currentPath,
                                                    !.lastModified = getFileById(st, id).lastModified]),
                st, Tail(updated))
         ELSE ApplyRenames(reloaded, st, Tail(updated))


(***************************************************************************)
(* CacheService.  The content hash is SHA-256 of the bytes: equal exactly  *)
(* when the contents are equal, so the content stands for its hash.        *)
(***************************************************************************)
calculateFileHash(files, p) == files[p]

\* a cache whose lookups find nothing
HasCachedResult_none(c, files, p) == FALSE

\* getCachedResult: null when hashing throws (no file) or nothing matches
HasCachedResult(c, files, p) ==
  Exists(files, p) /\ \E i \in 1..Len(c) : c[i].fileHash = calculateFileHash(files, p)

getCachedResult(c, files, p) ==
  c[CHOOSE i \in 1..Len(c) :
       /\ c[i].fileHash = calculateFileHash(files, p)
       /\ \A j \in 1..(i-1) : c[j].fileHash # calculateFileHash(files, p)]

\* a put that pushes the new entry without removing the entry of the same hash
cacheResult_append(c, files, p, data, documentType) ==
  Append(c, [fileHash |-> calculateFileHash(files, p), originalPath |-> p,
             analysisResult |-> data, documentType |-> documentType])

cacheResult(c, files, p, data, documentType) ==
  Append(SelectSeq(c, LAMBDA e : e.fileHash # calculateFileHash(files, p)),
         [fileHash |-> calculateFileHash(files, p), originalPath |-> p,
          analysisResult |-> data, documentType |-> documentType])

(***************************************************************************)
(* POST /api/analyze-batch.  `outs` gives, per item, what processFile does *)
(* if it is called: the extracted bundle, or "throw".                      *)
(***************************************************************************)
Outcomes == Fields \cup {"throw"}

\* a handler that never looks into the cache
UseCache_never(forceReanalyze, c, files, p) == FALSE

\* the `if (!forceReanalyze)` cache lookup
UseCache(forceReanalyze, c, files, p) ==
  ~forceReanalyze /\ HasCachedResult(c, files, p)

\* processFile cannot read a file that is gone
ProcessFile(files, p, out) == IF Exists(files, p) THEN out ELSE "throw"

\* a handler without the guard
SkipBad_absent(fileInfo) == FALSE

\* the `if (fileInfo.status === 'bad')` guard: no retry of a failed record
SkipBad(fileInfo) == fileInfo.status = "bad"

\* one observation per item, taken while the handler runs: whether processFile
\* was called, what the cache held for the file, the record before and after
ItemResult(id, kind, called, cached, statusBefore, after) ==
  [id |-> id, kind |-> kind, called |-> called, cachedBefore |-> cached.has,
   cachedData |-> cached.data, cachedType |-> cached.documentType, hash |-> cached.hash,
   statusBefore |-> statusBefore, after |-> after]

NotCached(hash) ==
  [has |-> FALSE, data |-> NoData, documentType |-> "none", hash |-> hash]

\* a file that is gone has no hash (written 0)
CacheView(c, files, p) ==
  IF ~Exists(files, p) THEN NotCached(0)
  ELSE IF \E e \in Range(c) : e.fileHash = files[p]
    THEN LET e == CHOOSE x \in Range(c) : x.fileHash = files[p]
         IN [has |-> TRUE, data |-> e.analysisResult, documentType |-> e.documentType,
             hash |-> files[p]]
    ELSE NotCached(files[p])

Observe(r) == [status |-> r.status, error |-> r.error, data |-> r.data,
               documentType |-> r.documentType, lastModified |-> r.lastModified]

NoRecord == [status |-> "none", error |-> NoError, data |-> NoData, documentType |-> "none",
             lastModified |-> 0]

RECURSIVE AnalyzeLoop(_, _, _, _, _, _, _)
AnalyzeLoop(ids, outs, forceReanalyze, st, c, files, results) ==
  IF ids = <<>> THEN [st |-> st, cache |-> c, results |-> results]
  ELSE
    LET id == Head(ids) IN
    IF ~HasId(st, id)
      THEN AnalyzeLoop(Tail(ids), Tail(outs), forceReanalyze, st, c, files,
             Append(results, ItemResult(id, "notfound", FALSE, NotCached(0),
                                          "none", NoRecord)))
    ELSE
      LET fileInfo == getFileById(st, id)
          p == fileInfo.currentPath
          cachedBefore == CacheView(c, files, p)
      IN
      IF SkipBad(fileInfo)
        THEN AnalyzeLoop(Tail(ids), Tail(outs), forceReanalyze, st, c, files,
               Append(results, ItemResult(id, "badskip", FALSE, cachedBefore, "bad",
                                          Observe(fileInfo))))
      ELSE IF UseCache(forceReanalyze, c, files, p)
        THEN LET hit == getCachedResult(c, files, p)
                 rec == [fileInfo EXCEPT !.data = hit.analysisResult,
                                         !.documentType = hit.documentType,
                                         !.status = "analyzed", !.error = NoError,
                                         !.lastModified = @ + 1]
             IN AnalyzeLoop(Tail(ids), Tail(outs), forceReanalyze,
                            UpdateRecord(st, id, rec), c, files,
                            Append(results, ItemResult(id, "hit", FALSE, cachedBefore,
                                                       fileInfo.status, Observe(rec))))
      ELSE
        LET out == ProcessFile(files, p, Head(outs)) IN
        IF out = "throw"
          THEN LET rec == [fileInfo EXCEPT !.status = "bad", !.error = "Error analyzing file",
                                           !.lastModified = @ + 1]
               IN AnalyzeLoop(Tail(ids), Tail(outs), forceReanalyze,
                              UpdateRecord(st, id, rec), c, files,
                              Append(results, ItemResult(id, "failed", TRUE, cachedBefore,
                                                         fileInfo.status, Observe(rec))))
          ELSE LET rec == [fileInfo EXCEPT !.data = out, !.documentType = DocTypeOf(out),
                                           !.status = "analyzed", !.error = NoError,
                                         !.lastModified = @ + 1]
               IN AnalyzeLoop(Tail(ids), Tail(outs), forceReanalyze,
                              UpdateRecord(st, id, rec),
                              cacheResult(c, files, p, out, DocTypeOf(out)), files,
                              Append(results, ItemResult(id, "analyzed", TRUE, cachedBefore,
                                                         fileInfo.status, Observe(rec))))


(***************************************************************************)
(* Records.  lastModified counts the times the record has been stamped     *)
(* with new Date() since createFileInfo stamped it first: a later stamp is *)
(* a larger number.                                                        *)
(***************************************************************************)
TypeOfExt(e) == IF e = "pdf" THEN "pdf" ELSE "image"

NewRecord(id, p, documentType) ==
  [id |-> id, originalPath |-> p, currentPath |-> p, status |-> "new",
   type |-> TypeOfExt(p.ext), documentType |-> documentType,
   lastModified |-> 0, data |-> NoData, error |-> NoError]

\* loadState() of a snapshot that parses; saveState() of a registry
loadState(snapshot) == snapshot
saveState(st) == st

cleanupNonExistentFiles(st, files) ==
  SelectSeq(st, LAMBDA r : Exists(files, r.currentPath))

(***************************************************************************)
(* POST /api/scan                                                          *)
(***************************************************************************)
\* FileService.findFiles: every supported file of the folder, in readdir
\* order; names that differ in their index only follow each other by index
findFiles(files) ==
  LET stemOf(p) == [p EXCEPT !.idx = 0]
      group(stem) == {p \in DOMAIN files : stemOf(p) = stem}
      byIndex(G) == [n \in 1..Cardinality(G) |->
                      CHOOSE p \in G : Cardinality({q \in G : q.idx < p.idx}) = n - 1]
      RECURSIVE listed(_)
      listed(stems) == IF stems = << >> THEN << >>
                       ELSE byIndex(group(Head(stems))) \o listed(Tail(stems))
  IN listed(SetToSeq({stemOf(p) : p \in DOMAIN files}))

RECURSIVE ScanLoop(_, _, _)
ScanLoop(found, st, nextId) ==
  IF found = <<>> THEN st
  ELSE IF isFileKnown(st, Head(found))
         THEN ScanLoop(Tail(found), st, nextId)
         ELSE ScanLoop(Tail(found),
                       Append(st, NewRecord(nextId, Head(found), "invoice")),
                       nextId + 1)

ScanOutcome(st0, files, snapshot, nextId) ==
  LET cleaned == cleanupNonExistentFiles(st0, files)
      disk1 == IF Len(cleaned) < Len(st0) THEN saveState(cleaned) ELSE snapshot
      st2 == ScanLoop(findFiles(files), cleaned, nextId)
      newFilesCount == Len(st2) - Len(cleaned)
      disk2 == IF newFilesCount > 0 THEN saveState(st2) ELSE disk1
  IN [disk |-> disk2, memFiles |-> loadState(disk2), newFilesCount |-> newFilesCount]

(***************************************************************************)
(* POST /api/merge-files                                                   *)
(***************************************************************************)
DeletePath(p) == [p EXCEPT !.del = @ + 1]
MergedPdfPath(p) == [p EXCEPT !.ext = "pdf"]

RECURSIVE RetireLoop(_, _)
RetireLoop(paths, files) ==
  IF paths = <<>> THEN [ok |-> TRUE, files |-> files]
  ELSE IF ~Exists(files, Head(paths)) THEN [ok |-> FALSE, files |-> files]
  ELSE RetireLoop(Tail(paths), FsRename(files, Head(paths), DeletePath(Head(paths))))

RECURSIVE RemoveAll(_, _)
RemoveAll(st, ids) ==
  IF ids = <<>> THEN st ELSE RemoveAll(removeFileById(st, Head(ids)), Tail(ids))

MergeResp(code, files, memFiles, snapshot, mergedPath) ==
  [code |-> code, files |-> files, memFiles |-> memFiles, disk |-> snapshot,
   mergedPath |-> mergedPath]

MergeOutcome(fileIds, st, files, snapshot, mergedFileId, pdfBytes) ==
  IF \E i \in 1..Len(fileIds) : ~HasId(st, fileIds[i])
    THEN MergeResp("notfound", files, st, snapshot, Path("", ""))
  ELSE
    LET recs == [i \in 1..Len(fileIds) |-> getFileById(st, fileIds[i])] IN
    IF \E i \in 1..Len(recs) : recs[i].type # "image"
      THEN MergeResp("nonimage", files, st, snapshot, Path("", ""))
    ELSE IF \E i \in 1..Len(recs) : ~Exists(files, recs[i].currentPath)
      THEN MergeResp("missing", files, st, snapshot, Path("", ""))
    ELSE
      LET mergedPdfPath == MergedPdfPath(recs[1].currentPath)
          written == FsWrite(files, mergedPdfPath, pdfBytes)
          retired == RetireLoop([i \in 1..Len(recs) |-> recs[i].currentPath], written)
      IN
      IF ~retired.ok
        THEN MergeResp("error", retired.files, st, snapshot, mergedPdfPath)
      ELSE
        LET removed == RemoveAll(st, fileIds) IN
        IF isFileKnown(removed, mergedPdfPath)
          THEN MergeResp("error", retired.files, removed, snapshot, mergedPdfPath)
        ELSE
          LET added == Append(removed, NewRecord(mergedFileId, mergedPdfPath, "generic"))
              \* `await stateService.loadState()` replaces this.state (= added)
              reloaded == loadState(snapshot)
          IN MergeResp("ok", retired.files, reloaded, saveState(reloaded), mergedPdfPath)

(***************************************************************************)
(* Manual edits and maintenance routes.                                    *)
(***************************************************************************)
\* POST /api/update-invoicedata: data = {...data, ...edit}, status = analyzed
updateInvoiceData(st, id, data) ==
  UpdateRecord(st, id, [getFileById(st, id) EXCEPT !.data = data, !.status = "analyzed",
                                                  !.lastModified = @ + 1])

\* PUT /api/records with the body {id, data} the UI sends: Object.assign
putRecord(st, id, data) ==
  UpdateRecord(st, id, [getFileById(st, id) EXCEPT !.data = data])

resetBadFiles(st) ==
  [i \in 1..Len(st) |->
     IF st[i].status = "bad"
       THEN [st[i] EXCEPT !.status = "new", !.error = NoError, !.lastModified = @ + 1]
     ELSE st[i]]

removeNotAnalyzedFiles(st) ==
  SelectSeq(st, LAMBDA r : r.status # "new" /\ r.status # "bad")

removeRenamedFiles(st) == SelectSeq(st, LAMBDA r : ~IsRenamed(r))


(***************************************************************************)
(* Requests.  Each action is one request handled from start to end.        *)
(***************************************************************************)
\* ids a client can send: those of records some copy of the registry holds,
\* and 0, an id no record has
ReqIds ==
  {0} \cup {disk[i].id : i \in 1..Len(disk)}
      \cup UNION {{mem[r].files[i].id : i \in 1..Len(mem[r].files)} : r \in LazyRoutes}
IdLists == UNION {[1..n -> ReqIds] : n \in 1..MaxBatch}

SetMem(route, files) == [mem EXCEPT ![route] = [init |-> TRUE, files |-> files]]

Served == /\ ops < MaxOps
          /\ ops' = ops + 1
          /\ UNCHANGED steps

Scan ==
  /\ Served
  /\ LET r == ScanOutcome(Lazy("scan"), fs, disk, fresh) IN
       /\ fresh + r.newFilesCount <= MaxFresh + 1
       /\ disk' = r.disk
       /\ mem' = SetMem("scan", r.memFiles)
       /\ fresh' = fresh + r.newFilesCount
       /\ last' = [op |-> "scan", newFilesCount |-> r.newFilesCount]
  /\ UNCHANGED <<fs, cache, cacheDisk>>

AnalyzeBatch ==
  /\ Served
  /\ \E ids \in IdLists, forceReanalyze \in BOOLEAN :
     \E outs \in [1..Len(ids) -> Outcomes] :
       LET c0 == IF cache.init THEN cache.entries ELSE cacheDisk
           r == AnalyzeLoop(ids, outs, forceReanalyze, loadState(disk), c0, fs, <<>>)
           saved == IF \E i \in 1..Len(r.results) : r.results[i].kind = "analyzed"
                      THEN r.cache ELSE cacheDisk
       IN /\ disk' = saveState(r.st)
          /\ cacheDisk' = saved
          /\ cache' = [init |-> TRUE, entries |-> saved]
          /\ last' = [op |-> "analyze", ids |-> ids, force |-> forceReanalyze,
                      results |-> r.results]
  /\ UNCHANGED <<fs, mem, fresh>>

RenameBatch ==
  /\ Served
  /\ \E ids \in IdLists :
       LET r == RenameLoop(ids, loadState(disk), fs, {}, <<>>, <<>>) IN
         /\ fs' = r.files
         /\ disk' = IF r.updated # <<>>
                      THEN saveState(ApplyRenames(loadState(disk), r.st, r.updated))
                      ELSE disk
         /\ last' = [op |-> "renameBatch", ids |-> ids, results |-> r.results]
  /\ UNCHANGED <<mem, cache, cacheDisk, fresh>>

RenameFile ==
  /\ Served
  /\ \E id \in ReqIds :
       LET st == loadState(disk) IN
       IF ~HasId(st, id)
         THEN /\ last' = [op |-> "renameFile", id |-> id, code |-> "notfound"]
              /\ UNCHANGED <<fs, disk>>
       ELSE
         LET record == getFileById(st, id)
             newPath == generateFileName(record)
         IN
         IF newPath = record.currentPath
           THEN /\ last' = [op |-> "renameFile", id |-> id, code |-> "noname"]
                /\ UNCHANGED <<fs, disk>>
         ELSE IF Exists(fs, newPath)
           THEN /\ last' = [op |-> "renameFile", id |-> id, code |-> "exists"]
                /\ UNCHANGED <<fs, disk>>
         ELSE IF ~Exists(fs, record.currentPath)
           THEN /\ last' = [op |-> "renameFile", id |-> id, code |-> "nosource"]
                /\ UNCHANGED <<fs, disk>>
         ELSE /\ fs' = FsRename(fs, record.currentPath, newPath)
              /\ disk' = saveState(UpdateRecord(loadState(disk), id,
                                     [record EXCEPT !.currentPath = newPath,
                                                    !.lastModified = @ + 1]))
              /\ last' = [op |-> "renameFile", id |-> id, code |-> "ok"]
  /\ UNCHANGED <<mem, cache, cacheDisk, fresh>>

Merge ==
  /\ Served
  /\ fresh <= MaxFresh
  /\ \E fileIds \in IdLists :
       IF Len(fileIds) < 2
         THEN /\ last' = [op |-> "merge", ids |-> fileIds, code |-> "invalid",
                          mergedId |-> 0, mergedPath |-> Path("", ""), before |-> disk]
              /\ UNCHANGED <<fs, disk, mem, fresh>>
       ELSE
         LET r == MergeOutcome(fileIds, Lazy("merge"), fs, disk, fresh, 100 + fresh) IN
           /\ fs' = r.files
           /\ disk' = r.disk
           /\ mem' = SetMem("merge", r.memFiles)
           /\ fresh' = IF r.files # fs THEN fresh + 1 ELSE fresh
           /\ last' = [op |-> "merge", ids |-> fileIds, code |-> r.code,
                       mergedId |-> fresh, mergedPath |-> r.mergedPath, before |-> disk]
  /\ UNCHANGED <<cache, cacheDisk>>

UpdateInvoiceData ==
  /\ Served
  /\ \E id \in ReqIds, data \in Fields :
       LET st == Lazy("upd") IN
       IF HasId(st, id)
         THEN /\ disk' = saveState(updateInvoiceData(st, id, data))
              /\ mem' = SetMem("upd", updateInvoiceData(st, id, data))
              /\ last' = [op |-> "edit", id |-> id, code |-> "ok"]
         ELSE /\ mem' = SetMem("upd", st)
              /\ last' = [op |-> "edit", id |-> id, code |-> "notfound"]
              /\ UNCHANGED disk
  /\ UNCHANGED <<fs, cache, cacheDisk, fresh>>

\* GET /api/records, with or without ?since=: the route's own copy of the
\* registry, loaded on the route's first request
SinceValues == {0, 1, 3}

ChangedSince(files, since) == SelectSeq(files, LAMBDA file : file.lastModified > since)

RecordsGet ==
  /\ Served
  /\ \E q \in {[full |-> TRUE, since |-> 0]} \cup
              {[full |-> FALSE, since |-> n] : n \in SinceValues} :
       LET files == Lazy("put") IN
       /\ mem' = SetMem("put", files)
       /\ last' = [op |-> "get", full |-> q.full, since |-> q.since,
                   served |-> IF q.full THEN files ELSE ChangedSince(files, q.since)]
  /\ UNCHANGED <<fs, disk, cache, cacheDisk, fresh>>

RecordsPut ==
  /\ Served
  /\ \E id \in ReqIds, data \in Fields :
       LET st == Lazy("put") IN
       IF HasId(st, id)
         THEN /\ disk' = saveState(putRecord(st, id, data))
              /\ mem' = SetMem("put", putRecord(st, id, data))
              /\ last' = [op |-> "put", id |-> id, code |-> "ok"]
         ELSE /\ mem' = SetMem("put", st)
              /\ last' = [op |-> "put", id |-> id, code |-> "notfound"]
              /\ UNCHANGED disk
  /\ UNCHANGED <<fs, cache, cacheDisk, fresh>>

ResetBad ==
  /\ Served
  /\ LET st == loadState(disk) IN
       /\ disk' = IF \E i \in 1..Len(st) : st[i].status = "bad"
                    THEN saveState(resetBadFiles(st)) ELSE disk
       /\ last' = [op |-> "resetBad"]
  /\ UNCHANGED <<fs, mem, cache, cacheDisk, fresh>>

ClearState ==
  /\ Served
  /\ disk' = saveState(<<>>)
  /\ last' = [op |-> "clear"]
  /\ UNCHANGED <<fs, mem, cache, cacheDisk, fresh>>

RemoveRenamed ==
  /\ Served
  /\ disk' = saveState(removeRenamedFiles(Lazy("rr")))
  /\ mem' = SetMem("rr", removeRenamedFiles(Lazy("rr")))
  /\ last' = [op |-> "removeRenamed"]
  /\ UNCHANGED <<fs, cache, cacheDisk, fresh>>

CleanNotAnalyzed ==
  /\ Served
  /\ disk' = saveState(removeNotAnalyzedFiles(Lazy("cna")))
  /\ mem' = SetMem("cna", removeNotAnalyzedFiles(Lazy("cna")))
  /\ last' = [op |-> "cleanNotAnalyzed"]
  /\ UNCHANGED <<fs, cache, cacheDisk, fresh>>

CleanupNonExistent ==
  /\ Served
  /\ LET st == Lazy("cne")
         cleaned == cleanupNonExistentFiles(st, fs)
     IN /\ disk' = IF Len(cleaned) < Len(st) THEN saveState(cleaned) ELSE disk
        /\ mem' = SetMem("cne", cleaned)
        /\ last' = [op |-> "cleanupNonExistent"]
  /\ UNCHANGED <<fs, cache, cacheDisk, fresh>>

\* a file of the scan folder is deleted by the user, outside the application
ExternalDelete ==
  /\ Served
  /\ \E p \in DOMAIN fs : fs' = FsUnlink(fs, p)
  /\ last' = [op |-> "externalDelete"]
  /\ UNCHANGED <<disk, mem, cache, cacheDisk, fresh>>

(***************************************************************************)
(* Initial states: the process starts with the scan folder holding two     *)
(* images and with the snapshot an earlier run left: nothing scanned yet,  *)
(* both scanned and analyzed, or both analyzed and the first one renamed.  *)
(* No route has loaded anything yet.                                       *)
(***************************************************************************)
FsInit == (Path("a", "png") :> 1) @@ (Path("b", "png") :> 2)

Analyzed(r, data) ==
  [r EXCEPT !.data = data, !.documentType = DocTypeOf(data), !.status = "analyzed",
            !.lastModified = @ + 1]

DiskAnalyzed ==
  << Analyzed(NewRecord(1, Path("a", "png"), "invoice"), "DX"),
     Analyzed(NewRecord(2, Path("b", "png"), "invoice"), "DX") >>

CacheAnalyzed ==
  cacheResult(cacheResult(<<>>, FsInit, Path("a", "png"), "DX", "invoice"),
              FsInit, Path("b", "png"), "DX", "invoice")

DiskScanned ==
  << NewRecord(1, Path("a", "png"), "invoice"), NewRecord(2, Path("b", "png"), "invoice") >>

MemInit == [r \in LazyRoutes |-> [init |-> FALSE, files |-> <<>>]]

DiskRenamed ==
  [DiskAnalyzed EXCEPT ![1].currentPath = generateFileName(DiskAnalyzed[1])]

Init ==
  /\ \/ mem = MemInit
     \* the merge route has served a request on the analyzed registry, and the
     \* registry was then cleared through the clear-state route
     \/ /\ mem = [MemInit EXCEPT !["merge"] = [init |-> TRUE, files |-> DiskAnalyzed]]
        /\ disk = <<>> /\ cacheDisk = CacheAnalyzed
     \* the records and remove-renamed routes have served a request on the
     \* scanned registry, and the two files were then analyzed
     \/ /\ mem = [MemInit EXCEPT !["put"] = [init |-> TRUE, files |-> DiskScanned],
                                 !["rr"] = [init |-> TRUE, files |-> DiskScanned]]
        /\ disk = DiskAnalyzed
  /\ \/ fs = FsInit /\ disk = <<>> /\ cacheDisk = <<>> /\ fresh = 1
     \/ fs = FsInit /\ disk = <<>> /\ cacheDisk = CacheAnalyzed /\ fresh = 3
     \/ fs = FsInit /\ disk = DiskAnalyzed /\ cacheDisk = CacheAnalyzed /\ fresh = 3
     \/ /\ fs = FsRename(FsInit, Path("a", "png"), DiskRenamed[1].currentPath)
        /\ disk = DiskRenamed /\ cacheDisk = CacheAnalyzed /\ fresh = 3
     \* the first file was scanned as Y.png, analyzed, edited by hand and renamed
     \/ /\ fs = FsRename(FsInit, Path("a", "png"), Path("X", "png"))
        /\ disk = [DiskAnalyzed EXCEPT ![1].originalPath = Path("Y", "png"),
                                       ![1].currentPath = Path("X", "png"),
                                       ![1].documentType = "generic",
                                       ![1].lastModified = 3]
        /\ cacheDisk = cacheResult(<< >>, (Path("Y", "png") :> 1), Path("Y", "png"),
                                   "DY", "generic")
        /\ fresh = 3
  /\ cache = [init |-> FALSE, entries |-> <<>>]
  /\ ops = 0
  /\ last = [op |-> "start"]
  /\ stateDir = <<>>
  /\ proc = [pc |-> "idle"]
  /\ log = <<>>
  /\ client = [pc |-> "idle"]

Next ==
  \/ Scan
  \/ AnalyzeBatch
  \/ RenameBatch
  \/ RenameFile
  \/ Merge
  \/ UpdateInvoiceData
  \/ RecordsPut
  \/ RecordsGet
  \/ ResetBad
  \/ ClearState
  \/ RemoveRenamed
  \/ CleanNotAnalyzed
  \/ CleanupNonExistent
  \/ ExternalDelete

Spec == Init /\ [][Next]_vars

(***************************************************************************)
(* SpecAlloc: the rename routes in a scan folder that already holds the    *)
(* file name both records propose, with its first k suffixed variants      *)
(* (k up to every suffix the allocator can try).                           *)
(***************************************************************************)
AllocLevels == {0, 1, IndexCap - 2, IndexCap - 1}

Proposal == generateFileName(DiskAnalyzed[1])

AllocFs(k, baseTaken) ==
  LET taken == (IF baseTaken THEN {Proposal} ELSE {})
                 \cup {[Proposal EXCEPT !.idx = i] : i \in 1..k}
  IN [p \in DOMAIN FsInit \cup taken |-> IF p \in DOMAIN FsInit THEN FsInit[p] ELSE 10 + p.idx]

InitAlloc ==
  /\ \E k \in AllocLevels, baseTaken \in BOOLEAN : fs = AllocFs(k, baseTaken)
  /\ disk = DiskAnalyzed
  /\ cacheDisk = CacheAnalyzed
  /\ fresh = 3
  /\ mem = MemInit
  /\ cache = [init |-> FALSE, entries |-> <<>>]
  /\ ops = 0
  /\ last = [op |-> "start"]
  /\ stateDir = <<>>
  /\ proc = [pc |-> "idle"]
  /\ log = <<>>
  /\ client = [pc |-> "idle"]

NextAlloc ==
  \/ RenameBatch
  \/ RenameFile
  \/ UpdateInvoiceData

SpecAlloc == InitAlloc /\ [][NextAlloc]_vars

(***************************************************************************)
(* The snapshot as text.  JSON.stringify writes the registry as a sequence *)
(* of tokens (white space, which JSON.parse skips, is left out); a file    *)
(* that was cut while being written is a prefix of that sequence, the last *)
(* token possibly a string literal without its closing quote.              *)
(***************************************************************************)
JStr(payload) == [t |-> "str", v |-> payload]
JObj(members) == [t |-> "obj", m |-> members]
JArr(items) == [t |-> "arr", a |-> items]
Member(key, value) == [k |-> [s |-> key], v |-> value]

Punct(c) == [k |-> "p", c |-> c]
StrTok(payload) == [k |-> "s", v |-> payload]
\* a string literal cut before its closing quote; braceComma: the part that
\* was written contains the characters `},`
CutTok(braceComma) == [k |-> "cut", bc |-> braceComma]

\* extracted text is arbitrary: the fields "DY" hold a string with `},` in it
HasBraceComma(tok) ==
  \/ tok.k = "s" /\ tok.v = [s |-> "DY"]
  \/ tok.k = "cut" /\ tok.bc
IsPunct(tok, c) == tok.k = "p" /\ tok.c = c

\* a writer that leaves the extracted fields out
RecordObject_noData(r) ==
  JObj(<< Member("id", JStr([id |-> r.id])),
          Member("originalPath", JStr([path |-> r.originalPath])),
          Member("currentPath", JStr([path |-> r.currentPath])),
          Member("status", JStr([s |-> r.status])),
          Member("type", JStr([s |-> r.type])),
          Member("documentType", JStr([s |-> r.documentType])),
          Member("lastModified", JStr([t |-> r.lastModified])) >>)

\* the FileInfo object of a record, keys in insertion order: data and error
\* are added by the analysis, undefined values are not written
RecordObject(r) ==
  JObj(<< Member("id", JStr([id |-> r.id])),
          Member("originalPath", JStr([path |-> r.originalPath])),
          Member("currentPath", JStr([path |-> r.currentPath])),
          Member("status", JStr([s |-> r.status])),
          Member("type", JStr([s |-> r.type])),
          Member("documentType", JStr([s |-> r.documentType])),
          Member("lastModified", JStr([t |-> r.lastModified])) >>
       \o (IF r.data # NoData
             THEN << Member("data", JObj(<< Member("fields", JStr([s |-> r.data])) >>)) >>
             ELSE << >>)
       \o (IF r.error # NoError THEN << Member("error", JStr([s |-> r.error])) >> ELSE << >>))

StateObject(st) ==
  JObj(<< Member("knownFiles", JArr([i \in 1..Len(st) |-> RecordObject(st[i])])),
          Member("lastRun", JStr([s |-> "now"])) >>)

RECURSIVE stringify(_)
RECURSIVE stringifyAll(_, _)
stringifyAll(vals, isMember) ==
  IF vals = << >> THEN << >>
  ELSE LET one == IF isMember
                    THEN << StrTok(Head(vals).k), Punct(":") >> \o stringify(Head(vals).v)
                    ELSE stringify(Head(vals))
       IN IF Len(vals) = 1 THEN one
          ELSE one \o << Punct(",") >> \o stringifyAll(Tail(vals), isMember)

stringify(val) ==
  IF val.t = "str" THEN << StrTok(val.v) >>
  ELSE IF val.t = "obj" THEN << Punct("{") >> \o stringifyAll(val.m, TRUE) \o << Punct("}") >>
  ELSE << Punct("[") >> \o stringifyAll(val.a, FALSE) \o << Punct("]") >>

\* JSON.parse: recursive descent; `next` is the first token not consumed
ParseFail == [ok |-> FALSE, val |-> JArr(<< >>), next |-> 0]

RECURSIVE ParseValue(_, _)
RECURSIVE ParseRest(_, _, _, _)
ParseRest(toks, i, acc, isMember) ==
  LET close == IF isMember THEN "}" ELSE "]"
      done(items, n) == [ok |-> TRUE, next |-> n,
                         val |-> IF isMember THEN JObj(items) ELSE JArr(items)]
  IN
  IF i > Len(toks) THEN ParseFail
  ELSE IF acc = << >> /\ IsPunct(toks[i], close) THEN done(acc, i + 1)
  ELSE IF isMember /\ ~(toks[i].k = "s" /\ i + 1 <= Len(toks) /\ IsPunct(toks[i + 1], ":"))
    THEN ParseFail
  ELSE
    LET r == ParseValue(toks, IF isMember THEN i + 2 ELSE i) IN
    IF ~r.ok \/ r.next > Len(toks) THEN ParseFail
    ELSE
      LET items == Append(acc, IF isMember THEN [k |-> toks[i].v, v |-> r.val] ELSE r.val) IN
      IF IsPunct(toks[r.next], close) THEN done(items, r.next + 1)
      ELSE IF IsPunct(toks[r.next], ",")
        THEN IF r.next + 1 <= Len(toks) /\ IsPunct(toks[r.next + 1], close)
               THEN ParseFail
               ELSE ParseRest(toks, r.next + 1, items, isMember)
      ELSE ParseFail

ParseValue(toks, i) ==
  IF i > Len(toks) THEN ParseFail
  ELSE IF toks[i].k = "s" THEN [ok |-> TRUE, val |-> JStr(toks[i].v), next |-> i + 1]
  ELSE IF IsPunct(toks[i], "{") THEN ParseRest(toks, i + 1, << >>, TRUE)
  ELSE IF IsPunct(toks[i], "[") THEN ParseRest(toks, i + 1, << >>, FALSE)
  ELSE ParseFail

JSONparse(toks) ==
  LET r == ParseValue(toks, 1)
  IN IF r.ok /\ r.next = Len(toks) + 1 THEN r ELSE ParseFail

HasKey(obj, key) == obj.t = "obj" /\ \E i \in 1..Len(obj.m) : obj.m[i].k = [s |-> key]

\* property access: the last member with the key
Get(obj, key) ==
  obj.m[CHOOSE i \in 1..Len(obj.m) :
          /\ obj.m[i].k = [s |-> key]
          /\ \A j \in (i + 1)..Len(obj.m) : obj.m[j].k # [s |-> key]].v

\* the FileInfo the rest of the program reads from a parsed record
FileInfoOf(obj) ==
  [id |-> Get(obj, "id").v.id,
   originalPath |-> Get(obj, "originalPath").v.path,
   currentPath |-> Get(obj, "currentPath").v.path,
   status |-> Get(obj, "status").v.s,
   type |-> Get(obj, "type").v.s,
   documentType |-> Get(obj, "documentType").v.s,
   lastModified |-> Get(obj, "lastModified").v.t,
   data |-> IF HasKey(obj, "data") THEN Get(Get(obj, "data"), "fields").v.s ELSE NoData,
   error |-> IF HasKey(obj, "error") THEN Get(obj, "error").v.s ELSE NoError]

KnownFilesOf(root) ==
  LET a == Get(root, "knownFiles").a IN [i \in 1..Len(a) |-> FileInfoOf(a[i])]

(***************************************************************************)
(* SpecSave: StateService.saveState step by step.  The process can crash   *)
(* between any two steps and in the middle of writeFile, which leaves a    *)
(* prefix of the text in the file it was writing; a new process starts     *)
(* after a crash.  One save is in flight at a time.                        *)
(***************************************************************************)
StateFile == [f |-> "state.json"]

\* a save that writes the canonical file in place
tempPath_inPlace == StateFile

tempPath == [f |-> "state.json.tmp"]
backupPath(now) == [f |-> "state.backup", t |-> now]
KeptBackups == 3

BadWithData ==
  [Analyzed(NewRecord(1, Path("a", "png"), "invoice"), "DY")
     EXCEPT !.status = "bad", !.error = "Error analyzing file", !.lastModified = @ + 1]

\* registries a process can hold when it saves
Snapshots == {<< >>, DiskAnalyzed, << BadWithData, DiskAnalyzed[2] >>}

jsonString(st) == stringify(StateObject(st))

Backups(dir) == {p \in DOMAIN dir : p.f = "state.backup"}

\* a save that never removes an old backup
PruneBackups_none(dir) == dir

\* backups sorted by name, newest first; all but the first KeptBackups go
PruneBackups(dir) ==
  LET old == {p \in Backups(dir) :
                Cardinality({q \in Backups(dir) : q.t > p.t}) >= KeptBackups}
  IN [p \in DOMAIN dir \ old |-> dir[p]]

SaveBegin ==
  /\ proc.pc = "idle"
  /\ ops < MaxOps
  /\ ops' = ops + 1
  /\ \E st \in Snapshots, tick \in {0, 1} :
       proc' = [pc |-> "backup", state |-> st,
                hadFile |-> StateFile \in DOMAIN stateDir,
                prevText |-> IF StateFile \in DOMAIN stateDir THEN stateDir[StateFile] ELSE << >>,
                now |-> proc.now + tick]
  /\ UNCHANGED <<fs, disk, mem, cache, cacheDisk, fresh, last, stateDir, log, client>>

\* copyFile(statePath, backupPath) and the removal of old backups
SaveBackup ==
  /\ proc.pc = "backup"
  /\ stateDir' = IF StateFile \in DOMAIN stateDir
                   THEN PruneBackups(FsWrite(stateDir, backupPath(proc.now), stateDir[StateFile]))
                   ELSE stateDir
  /\ proc' = [proc EXCEPT !.pc = "open"]
  /\ UNCHANGED <<fs, disk, mem, cache, cacheDisk, fresh, ops, last, log, client>>

\* writeFile(tempPath, jsonString): the file is created or truncated ...
SaveOpenTemp ==
  /\ proc.pc = "open"
  /\ stateDir' = FsWrite(stateDir, tempPath, << >>)
  /\ proc' = [proc EXCEPT !.pc = "write"]
  /\ UNCHANGED <<fs, disk, mem, cache, cacheDisk, fresh, ops, last, log, client>>

\* ... and filled piece by piece: one more token, or all that is left
SaveWrite ==
  /\ proc.pc = "write"
  /\ LET text == jsonString(proc.state) IN
     \E n \in {Len(stateDir[tempPath]) + 1, Len(text)} :
       /\ stateDir' = FsWrite(stateDir, tempPath, SubSeq(text, 1, n))
       /\ proc' = [proc EXCEPT !.pc = IF n = Len(text) THEN "rename" ELSE "write"]
  /\ UNCHANGED <<fs, disk, mem, cache, cacheDisk, fresh, ops, last, log, client>>

\* writeFile rejects (disk full): the catch block unlinks the temp file and rethrows
SaveWriteFails ==
  /\ proc.pc = "write"
  /\ stateDir' = FsUnlink(stateDir, tempPath)
  /\ proc' = [proc EXCEPT !.pc = "idle"]
  /\ log' = Append(log, "error: Error saving state")
  /\ UNCHANGED <<fs, disk, mem, cache, cacheDisk, fresh, ops, last, client>>

SaveRename ==
  /\ proc.pc = "rename"
  /\ stateDir' = FsRename(stateDir, tempPath, StateFile)
  /\ proc' = [proc EXCEPT !.pc = "idle"]
  /\ UNCHANGED <<fs, disk, mem, cache, cacheDisk, fresh, ops, last, log, client>>

Crash ==
  /\ proc.pc \in {"backup", "open", "write", "rename"}
  /\ proc' = [proc EXCEPT !.pc = "crashed"]
  /\ UNCHANGED <<fs, disk, mem, cache, cacheDisk, fresh, ops, last, stateDir, log, client>>

Restart ==
  /\ proc.pc = "crashed"
  /\ proc' = [proc EXCEPT !.pc = "idle"]
  /\ UNCHANGED <<fs, disk, mem, cache, cacheDisk, fresh, ops, last, stateDir, log, client>>

InitSave ==
  /\ \/ stateDir = << >> /\ proc = [pc |-> "idle", state |-> << >>, hadFile |-> FALSE,
                                     prevText |-> << >>, now |-> 1]
     \/ \E st \in Snapshots :
          /\ stateDir = FsWrite(<< >>, StateFile, jsonString(st))
          /\ proc = [pc |-> "idle", state |-> st, hadFile |-> TRUE,
                     prevText |-> jsonString(st), now |-> 1]
     \* a state directory that earlier saves have filled with backups
     \/ /\ stateDir = [q \in {StateFile} \cup {backupPath(t) : t \in -2..0} |->
                         IF q = StateFile THEN jsonString(DiskAnalyzed) ELSE jsonString(<< >>)]
        /\ proc = [pc |-> "idle", state |-> DiskAnalyzed, hadFile |-> TRUE,
                   prevText |-> jsonString(DiskAnalyzed), now |-> 1]
  /\ fs = FsInit /\ disk = << >> /\ cacheDisk = << >> /\ fresh = 1
  /\ mem = MemInit
  /\ cache = [init |-> FALSE, entries |-> << >>]
  /\ ops = 0
  /\ last = [op |-> "start"]
  /\ log = << >>
  /\ client = [pc |-> "idle"]

NextSave ==
  \/ SaveBegin
  \/ SaveBackup
  \/ SaveOpenTemp
  \/ SaveWrite
  \/ SaveWriteFails
  \/ SaveRename
  \/ Crash
  \/ Restart

SpecSave == InitSave /\ [][NextSave]_vars

(***************************************************************************)
(* SpecLoad: StateService.loadState on the file it finds: none, a complete *)
(* snapshot, or a snapshot cut at any point while it was written.          *)
(***************************************************************************)
corruptedPath(now) == [f |-> "state.json.corrupted", t |-> now]

\* the whole effect of saveState on the state directory
savedDir(dir, st, now) ==
  LET backedUp == IF StateFile \in DOMAIN dir
                    THEN PruneBackups(FsWrite(dir, backupPath(now), dir[StateFile]))
                    ELSE dir
  IN FsWrite(backedUp, StateFile, jsonString(st))

\* the text cut after n tokens, or inside the string that follows them
Truncations(text) ==
  {SubSeq(text, 1, n) : n \in 0..(Len(text) - 1)}
    \cup UNION {{Append(SubSeq(text, 1, n), CutTok(bc)) :
                   bc \in {b \in BOOLEAN : b => HasBraceComma(text[n + 1])}} :
                n \in {m \in 0..(Len(text) - 1) : text[m + 1].k = "s"}}

\* `position N` of the SyntaxError message, in tokens.  For a text that just
\* ends ("Unexpected end of JSON input") there is none; for a text that ends
\* inside a string, newer engines ("Unterminated string in JSON at position
\* N") give the end of the input or the start of that string, older none.
NoPosition == -1
ErrorPositions(data) ==
  {NoPosition}
    \cup (IF data # << >> /\ data[Len(data)].k = "cut"
            THEN {Len(data) - 1, Len(data)} ELSE {})

\* readFile + writeFile(`${statePath}.corrupted.${Date.now()}`)
corruptedBackup(dir, data, now) == FsWrite(dir, corruptedPath(now), data)

\* partialData.lastIndexOf('},'): token index of the last match, 0 if none
lastIndexOfBraceComma(partialData) ==
  LET hits == {i \in 1..Len(partialData) :
                 \/ /\ IsPunct(partialData[i], "}")
                    /\ i < Len(partialData) /\ IsPunct(partialData[i + 1], ",")
                 \/ HasBraceComma(partialData[i])}
  IN IF hits = {} THEN 0 ELSE CHOOSE i \in hits : \A j \in hits : j <= i

\* partialData.substring(0, lastCompleteEntry + 1): up to and including the `}`
validPart(partialData, i) ==
  IF IsPunct(partialData[i], "}") THEN SubSeq(partialData, 1, i)
  ELSE Append(SubSeq(partialData, 1, i - 1), CutTok(FALSE))

closingBrackets == << Punct("]"), Punct("}") >>

\* the recovery attempt of the SyntaxError branch
TryRecover(data, errorPos) ==
  IF errorPos = NoPosition THEN [ok |-> FALSE, files |-> << >>, tried |-> FALSE]
  ELSE
    LET partialData == SubSeq(data, 1, errorPos)
        lastCompleteEntry == lastIndexOfBraceComma(partialData)
    IN IF lastCompleteEntry = 0 THEN [ok |-> FALSE, files |-> << >>, tried |-> FALSE]
       ELSE LET recoveredState ==
                  JSONparse(validPart(partialData, lastCompleteEntry) \o closingBrackets)
            IN IF /\ recoveredState.ok
                  /\ HasKey(recoveredState.val, "knownFiles")
                  /\ Get(recoveredState.val, "knownFiles").t = "arr"
                 THEN [ok |-> TRUE, files |-> KnownFilesOf(recoveredState.val), tried |-> TRUE]
                 ELSE [ok |-> FALSE, files |-> << >>, tried |-> TRUE]

LoadRead ==
  /\ proc.pc = "start"
  /\ IF StateFile \notin DOMAIN stateDir
       THEN /\ proc' = [proc EXCEPT !.pc = "save", !.state = << >>]
            /\ log' = Append(log, "info: No state file found")
       ELSE LET data == stateDir[StateFile]
                parsed == JSONparse(data)
            IN IF parsed.ok
                 THEN /\ proc' = [proc EXCEPT !.pc = "done", !.state = KnownFilesOf(parsed.val)]
                      /\ log' = Append(log, "debug: State loaded successfully")
                 ELSE /\ \E errorPos \in ErrorPositions(data) :
                           proc' = [proc EXCEPT !.pc = "backup", !.corrupt = TRUE,
                                                !.data = data, !.errorPos = errorPos]
                      /\ log' = Append(log, "error: State file is corrupted")
  /\ UNCHANGED <<fs, disk, mem, cache, cacheDisk, fresh, ops, last, stateDir, client>>

LoadBackup ==
  /\ proc.pc = "backup"
  /\ stateDir' = corruptedBackup(stateDir, proc.data, proc.now)
  /\ proc' = [proc EXCEPT !.pc = "recover"]
  /\ log' = Append(log, "info: Backed up corrupted state file")
  /\ UNCHANGED <<fs, disk, mem, cache, cacheDisk, fresh, ops, last, client>>

LoadRecover ==
  /\ proc.pc = "recover"
  /\ LET r == TryRecover(stateDir[StateFile], proc.errorPos) IN
       /\ proc' = [proc EXCEPT !.pc = "save", !.state = r.files]
       /\ log' = IF r.ok THEN Append(log, "warn: Recovered files from corrupted state")
                 ELSE (IF r.tried THEN Append(log, "warn: Failed to recover partial state")
                       ELSE log) \o << "warn: Starting with empty state due to corruption" >>
  /\ UNCHANGED <<fs, disk, mem, cache, cacheDisk, fresh, ops, last, stateDir, client>>

LoadSave ==
  /\ proc.pc = "save"
  /\ \E tick \in {0, 1} :
       stateDir' = savedDir(stateDir, proc.state, proc.now + tick)
  /\ proc' = [proc EXCEPT !.pc = "done"]
  /\ UNCHANGED <<fs, disk, mem, cache, cacheDisk, fresh, ops, last, log, client>>

InitLoad ==
  /\ \E written \in Snapshots :
       /\ \/ stateDir = << >>
          \/ stateDir = FsWrite(<< >>, StateFile, jsonString(written))
          \/ \E cut \in Truncations(jsonString(written)) :
               stateDir = FsWrite(<< >>, StateFile, cut)
       /\ proc = [pc |-> "start", written |-> written, state |-> << >>, corrupt |-> FALSE,
                  data |-> << >>, errorPos |-> NoPosition, now |-> 1]
  /\ fs = FsInit /\ disk = << >> /\ cacheDisk = << >> /\ fresh = 1
  /\ mem = MemInit
  /\ cache = [init |-> FALSE, entries |-> << >>]
  /\ ops = 0
  /\ last = [op |-> "start"]
  /\ log = << >>
  /\ client = [pc |-> "idle"]

NextLoad ==
  \/ LoadRead
  \/ LoadBackup
  \/ LoadRecover
  \/ LoadSave

SpecLoad == InitLoad /\ [][NextLoad]_vars

(***************************************************************************)
(* SpecRun: the browser's analyzeAll thunk, one analyze-batch request per  *)
(* file, with the Stop button; the server handles each request in steps    *)
(* (load, process, save, respond).                                         *)
(***************************************************************************)
\* the loop's `if (currentState.files.shouldStopAnalysis) break`, never taken
ShouldBreak_never(c) == FALSE

ShouldBreak(c) == c.shouldStopAnalysis

\* state.files.files.filter(status new or bad), as ids
filesToAnalyze(files) ==
  LET picked == SelectSeq(files, LAMBDA r : r.status = "new" \/ r.status = "bad")
  IN [i \in 1..Len(picked) |-> picked[i].id]

ClientIdle ==
  [isAnalyzingAll |-> FALSE, shouldStopAnalysis |-> FALSE, pc |-> "idle", todo |-> << >>,
   index |-> 0, started |-> 0, processedCount |-> 0, failedCount |-> 0,
   completed |-> << >>, stopped |-> FALSE, stopAt |-> 0, stopInFlight |-> FALSE,
   initial |-> << >>]

\* dispatch(analyzeAll()): the pending reducer, then the filter
RunStart ==
  /\ client.pc = "idle"
  /\ client' = IF filesToAnalyze(disk) = << >>
                 THEN [client EXCEPT !.pc = "rejected"]
                 ELSE [client EXCEPT !.isAnalyzingAll = TRUE, !.shouldStopAnalysis = FALSE,
                                     !.pc = "check", !.todo = filesToAnalyze(disk),
                                     !.index = 1, !.initial = disk]
  /\ UNCHANGED <<fs, disk, mem, cache, cacheDisk, fresh, ops, last, stateDir, proc, log>>

\* top of the loop: end of the list, the stop flag, or the next fetch
RunCheck ==
  /\ client.pc = "check"
  /\ client' = IF client.index > Len(client.todo) \/ ShouldBreak(client)
                 THEN [client EXCEPT !.pc = "done", !.isAnalyzingAll = FALSE,
                                     !.shouldStopAnalysis = FALSE]
                 ELSE [client EXCEPT !.pc = "fetch", !.started = client.index]
  /\ UNCHANGED <<fs, disk, mem, cache, cacheDisk, fresh, ops, last, stateDir, proc, log>>

\* the request reaches the server
RunSend ==
  /\ client.pc = "fetch"
  /\ client' = [client EXCEPT !.pc = "await"]
  /\ proc' = [pc |-> "received", id |-> client.todo[client.index]]
  /\ UNCHANGED <<fs, disk, mem, cache, cacheDisk, fresh, ops, last, stateDir, log>>

\* fetch rejects (the server is not reachable): the catch block counts a failure
RunFetchFails ==
  /\ client.pc = "fetch"
  /\ client' = [client EXCEPT !.pc = "check", !.index = @ + 1, !.failedCount = @ + 1,
                              !.completed = Append(@, [id |-> client.todo[client.index],
                                                       handled |-> FALSE])]
  /\ UNCHANGED <<fs, disk, mem, cache, cacheDisk, fresh, ops, last, stateDir, proc, log>>

ServerLoad ==
  /\ proc.pc = "received"
  /\ proc' = [pc |-> "process", id |-> proc.id, st |-> loadState(disk)]
  /\ cache' = [init |-> TRUE, entries |-> IF cache.init THEN cache.entries ELSE cacheDisk]
  /\ UNCHANGED <<fs, disk, mem, cacheDisk, fresh, ops, last, stateDir, log, client>>

\* the loop body for the one id of the request; cacheResult saves the cache
ServerProcess ==
  /\ proc.pc = "process"
  /\ \E out \in Outcomes :
       LET r == AnalyzeLoop(<< proc.id >>, << out >>, FALSE, proc.st, cache.entries, fs, << >>)
       IN /\ proc' = [pc |-> "save", id |-> proc.id, st |-> r.st, result |-> r.results[1]]
          /\ cache' = [cache EXCEPT !.entries = r.cache]
          /\ cacheDisk' = IF r.results[1].kind = "analyzed" THEN r.cache ELSE cacheDisk
  /\ UNCHANGED <<fs, disk, mem, fresh, ops, last, stateDir, log, client>>

ServerSave ==
  /\ proc.pc = "save"
  /\ disk' = saveState(proc.st)
  /\ cache' = [cache EXCEPT !.entries = cacheDisk]
  /\ proc' = [proc EXCEPT !.pc = "respond"]
  /\ UNCHANGED <<fs, mem, cacheDisk, fresh, ops, last, stateDir, log, client>>

\* response.ok: one of the two counters, then the 100 ms delay
RunReceive ==
  /\ client.pc = "await"
  /\ proc.pc = "respond"
  /\ LET success == proc.result.kind \in {"analyzed", "hit"} IN
       client' = [client EXCEPT !.pc = "delay",
                    !.processedCount = IF success THEN @ + 1 ELSE @,
                    !.failedCount = IF success THEN @ ELSE @ + 1,
                    !.completed = Append(@, [id |-> proc.id, handled |-> TRUE,
                                             after |-> proc.result.after])]
  /\ proc' = [pc |-> "idle"]
  /\ UNCHANGED <<fs, disk, mem, cache, cacheDisk, fresh, ops, last, stateDir, log>>

RunDelay ==
  /\ client.pc = "delay"
  /\ client' = [client EXCEPT !.pc = "check", !.index = @ + 1]
  /\ UNCHANGED <<fs, disk, mem, cache, cacheDisk, fresh, ops, last, stateDir, proc, log>>

\* the Stop button (shown while isAnalyzingAll, disabled once pressed)
StopRequest ==
  /\ client.isAnalyzingAll
  /\ ~client.shouldStopAnalysis
  /\ client' = [client EXCEPT !.shouldStopAnalysis = TRUE, !.stopped = TRUE,
                              !.stopAt = client.started,
                              !.stopInFlight = client.pc \in {"fetch", "await"}]
  /\ UNCHANGED <<fs, disk, mem, cache, cacheDisk, fresh, ops, last, stateDir, proc, log>>

\* registries the run can start from: new and bad records, one of them with
\* a file that is gone, the cache empty or holding the first file
RunSnapshots ==
  LET n1 == NewRecord(1, Path("a", "png"), "invoice")
      n2 == NewRecord(2, Path("b", "png"), "invoice")
      n3 == NewRecord(3, Path("c", "png"), "invoice")
      bad(r) == [r EXCEPT !.status = "bad", !.error = "Error analyzing file",
                          !.lastModified = @ + 1]
  IN {<< n1, n2 >>, << n1, n2, n3 >>, << bad(n1), n2, n3 >>, DiskAnalyzed}

InitRun ==
  /\ disk \in RunSnapshots
  /\ cacheDisk \in {<< >>, cacheResult(<< >>, FsInit, Path("a", "png"), "DX", "invoice")}
  /\ fs = FsInit
  /\ fresh = 4
  /\ mem = MemInit
  /\ cache = [init |-> FALSE, entries |-> << >>]
  /\ ops = 0
  /\ last = [op |-> "start"]
  /\ stateDir = << >>
  /\ proc = [pc |-> "idle"]
  /\ log = << >>
  /\ client = ClientIdle

NextRun ==
  \/ RunStart
  \/ RunCheck
  \/ RunSend
  \/ RunFetchFails
  \/ ServerLoad
  \/ ServerProcess
  \/ ServerSave
  \/ RunReceive
  \/ RunDelay
  \/ StopRequest

SpecRun == InitRun /\ [][NextRun]_vars

(***************************************************************************)
(* SpecConc: two overlapping analyze-batch requests served by the one      *)
(* StateService instance of the route module.  A handler runs until its    *)
(* next await; the other request's handler may run in between.             *)
(***************************************************************************)
Reqs == {1, 2}

\* await stateService.loadState(): this.state is replaced by the file's content
ReqLoad(r) ==
  /\ proc.req[r].pc = "load"
  /\ StateFile \in DOMAIN stateDir
  /\ proc' = [proc EXCEPT !.state = KnownFilesOf(JSONparse(stateDir[StateFile]).val),
                          !.req[r].pc = "item"]
  /\ UNCHANGED <<fs, disk, mem, cache, cacheDisk, fresh, ops, last, stateDir, log, client>>

\* one iteration of the for loop, on the instance's current this.state
ReqItem(r) ==
  /\ proc.req[r].pc = "item"
  /\ proc.req[r].i <= Len(proc.req[r].ids)
  /\ \E out \in Outcomes :
       LET q == proc.req[r]
           a == AnalyzeLoop(<< q.ids[q.i] >>, << out >>, FALSE, proc.state, << >>, fs, << >>)
       IN proc' = [proc EXCEPT !.state = a.st,
                               !.req[r].i = q.i + 1,
                               !.req[r].results = @ \o a.results,
                               !.req[r].pc = IF q.i = Len(q.ids) THEN "save" ELSE "item"]
  /\ UNCHANGED <<fs, disk, mem, cache, cacheDisk, fresh, ops, last, stateDir, log, client>>

\* saveState up to the end of writeFile(tempPath, jsonString)
ReqSaveWrite(r) ==
  /\ proc.req[r].pc = "save"
  /\ stateDir' = FsWrite(IF StateFile \in DOMAIN stateDir
                           THEN PruneBackups(FsWrite(stateDir, backupPath(proc.now),
                                                     stateDir[StateFile]))
                           ELSE stateDir,
                         tempPath, jsonString(proc.state))
  /\ proc' = [proc EXCEPT !.now = @ + 1, !.req[r].pc = "rename",
                          !.req[r].wrote = jsonString(proc.state)]
  /\ UNCHANGED <<fs, disk, mem, cache, cacheDisk, fresh, ops, last, log, client>>

\* rename(tempPath, statePath); ENOENT when the other save has renamed the
\* shared temp file away: the catch block rethrows and the request fails
ReqSaveRename(r) ==
  /\ proc.req[r].pc = "rename"
  /\ IF tempPath \in DOMAIN stateDir
       THEN /\ stateDir' = FsRename(stateDir, tempPath, StateFile)
            /\ proc' = [proc EXCEPT !.req[r].pc = "done"]
            /\ log' = log
       ELSE /\ stateDir' = stateDir
            /\ proc' = [proc EXCEPT !.req[r].pc = "failed"]
            /\ log' = Append(log, "error: Error saving state")
  /\ UNCHANGED <<fs, disk, mem, cache, cacheDisk, fresh, ops, last, client>>

InitConc ==
  /\ stateDir = FsWrite(<< >>, StateFile,
                        jsonString(<< NewRecord(1, Path("a", "png"), "invoice"),
                                      NewRecord(2, Path("b", "png"), "invoice"),
                                      NewRecord(3, Path("c", "png"), "invoice") >>))
  /\ proc = [state |-> << >>, now |-> 1,
             req |-> [r \in Reqs |->
                        [pc |-> "load", i |-> 1, wrote |-> << >>, results |-> << >>,
                         ids |-> IF r = 1 THEN << 1, 2 >> ELSE << 3 >>]]]
  /\ fs = FsInit /\ disk = << >> /\ cacheDisk = << >> /\ fresh = 4
  /\ mem = MemInit
  /\ cache = [init |-> FALSE, entries |-> << >>]
  /\ ops = 0
  /\ last = [op |-> "start"]
  /\ log = << >>
  /\ client = [pc |-> "idle"]

NextConc ==
  \E r \in Reqs :
    \/ ReqLoad(r)
    \/ ReqItem(r)
    \/ ReqSaveWrite(r)
    \/ ReqSaveRename(r)

SpecConc == InitConc /\ [][NextConc]_vars

(***************************************************************************)
(* SpecCache: one CacheService instance and its file analysis-cache.json.  *)
(* Every operation changes this.cache and then runs saveCache, which is a  *)
(* single fs.writeFile on the cache file itself.  The text of the file is  *)
(* one opening token, one token per entry, one closing token.              *)
(***************************************************************************)
CacheFile == [f |-> "analysis-cache.json"]

\* JSON.stringify(this.cache)
cacheText(c) ==
  << [k |-> "open"] >> \o [i \in 1..Len(c) |-> [k |-> "entry", e |-> c[i]]]
                       \o << [k |-> "close"] >>

CachePut ==
  /\ proc.pc = "idle" /\ ops < MaxOps /\ ops' = ops + 1
  /\ \E p \in DOMAIN fs, data \in Fields :
       /\ cache' = [cache EXCEPT !.entries = cacheResult(@, fs, p, data, DocTypeOf(data))]
       /\ last' = [op |-> "put", hash |-> calculateFileHash(fs, p), data |-> data]
  /\ proc' = [proc EXCEPT !.pc = "open", !.prevText = stateDir[CacheFile]]
  /\ UNCHANGED <<fs, disk, mem, cacheDisk, fresh, stateDir, log, client>>

CacheRemove ==
  /\ proc.pc = "idle" /\ ops < MaxOps /\ ops' = ops + 1
  /\ \E p \in DOMAIN fs :
       /\ cache' = [cache EXCEPT !.entries =
                      SelectSeq(@, LAMBDA e : e.fileHash # calculateFileHash(fs, p))]
       /\ last' = [op |-> "remove", hash |-> calculateFileHash(fs, p)]
  /\ proc' = [proc EXCEPT !.pc = "open", !.prevText = stateDir[CacheFile]]
  /\ UNCHANGED <<fs, disk, mem, cacheDisk, fresh, stateDir, log, client>>

\* removePdfFilesFromCache(minDate): `late` are the entries whose timestamp
\* lies after minDate
CachePrune ==
  /\ proc.pc = "idle" /\ ops < MaxOps /\ ops' = ops + 1
  /\ \E late \in SUBSET (1..Len(cache.entries)) :
       LET kept == {i \in 1..Len(cache.entries) :
                      cache.entries[i].originalPath.ext # "pdf" \/ i \notin late}
       IN cache' = [cache EXCEPT !.entries =
                      [n \in 1..Cardinality(kept) |->
                         cache.entries[CHOOSE i \in kept :
                                         Cardinality({j \in kept : j < i}) = n - 1]]]
  /\ last' = [op |-> "prune"]
  /\ proc' = [proc EXCEPT !.pc = "open", !.prevText = stateDir[CacheFile]]
  /\ UNCHANGED <<fs, disk, mem, cacheDisk, fresh, stateDir, log, client>>

CacheClear ==
  /\ proc.pc = "idle" /\ ops < MaxOps /\ ops' = ops + 1
  /\ cache' = [cache EXCEPT !.entries = << >>]
  /\ last' = [op |-> "clear"]
  /\ proc' = [proc EXCEPT !.pc = "open", !.prevText = stateDir[CacheFile]]
  /\ UNCHANGED <<fs, disk, mem, cacheDisk, fresh, stateDir, log, client>>

\* fs.writeFile(cachePath, text): the file is truncated ...
CacheSaveOpen ==
  /\ proc.pc = "open"
  /\ CacheFile \in DOMAIN stateDir
  /\ stateDir' = FsWrite(stateDir, CacheFile, << >>)
  /\ proc' = [proc EXCEPT !.pc = "write"]
  /\ UNCHANGED <<fs, disk, mem, cache, cacheDisk, fresh, ops, last, log, client>>

\* ... and filled piece by piece: one more token, or all that is left
CacheSaveWrite ==
  /\ proc.pc = "write"
  /\ CacheFile \in DOMAIN stateDir
  /\ LET text == cacheText(cache.entries) IN
     \E n \in {Len(stateDir[CacheFile]) + 1, Len(text)} :
       /\ stateDir' = FsWrite(stateDir, CacheFile, SubSeq(text, 1, n))
       /\ proc' = [proc EXCEPT !.pc = IF n = Len(text) THEN "idle" ELSE "write"]
  /\ UNCHANGED <<fs, disk, mem, cache, cacheDisk, fresh, ops, last, log, client>>

\* loadCache, at process start or as a refreshCache that changes this.cache:
\* unparsable text gives a warning and an empty cache
CacheLoad ==
  /\ proc.pc \in {"idle", "crashed"}
  /\ CacheFile \in DOMAIN stateDir
  /\ LET text == stateDir[CacheFile]
         ok == Len(text) >= 2 /\ text[1].k = "open" /\ text[Len(text)].k = "close"
         loaded == IF ok THEN [i \in 1..(Len(text) - 2) |-> text[i + 1].e] ELSE << >>
     IN /\ proc.pc = "idle" => loaded # cache.entries
        /\ cache' = [cache EXCEPT !.entries = loaded]
        /\ log' = IF ok THEN log ELSE Append(log, "warn: Error reading analysis cache")
  /\ proc' = [proc EXCEPT !.pc = "idle"]
  /\ last' = [op |-> "load"]
  /\ UNCHANGED <<fs, disk, mem, cacheDisk, fresh, ops, stateDir, client>>

InitCache ==
  /\ fs = FsWrite(FsWrite(FsInit, Path("c", "png"), 1), Path("d", "pdf"), 3)
  /\ cache = [init |-> TRUE, entries |-> << >>]
  /\ stateDir = FsWrite(<< >>, CacheFile, cacheText(<< >>))
  /\ proc = [pc |-> "idle", prevText |-> cacheText(<< >>)]
  /\ disk = << >> /\ cacheDisk = << >> /\ fresh = 1
  /\ mem = MemInit
  /\ ops = 0
  /\ last = [op |-> "start"]
  /\ log = << >>
  /\ client = [pc |-> "idle"]

NextCache ==
  \/ CachePut
  \/ CacheRemove
  \/ CachePrune
  \/ CacheClear
  \/ CacheSaveOpen
  \/ CacheSaveWrite
  \/ CacheLoad
  \/ Crash

SpecCache == InitCache /\ [][NextCache]_vars

(***************************************************************************)
(* SpecScan: POST /api/scan step by step (cleanup and findFiles, one loop  *)
(* iteration at a time, the final save and reload), next to requests of    *)
(* other routes and to files disappearing.  The route keeps its own        *)
(* StateService instance, loaded on its first request only.                *)
(***************************************************************************)
BATCH_SIZE == 100

ScanBegin ==
  /\ proc.pc = "idle"
  /\ LET st0 == Lazy("scan")
         cleaned == cleanupNonExistentFiles(st0, fs)
     IN /\ disk' = IF Len(cleaned) < Len(st0) THEN saveState(cleaned) ELSE disk
        /\ mem' = SetMem("scan", cleaned)
        /\ proc' = [pc |-> "loop", found |-> findFiles(fs), i |-> 1, newFilesCount |-> 0,
                    before |-> disk, opsAtBegin |-> ops, synced |-> st0 = disk]
  /\ UNCHANGED <<fs, cache, cacheDisk, fresh, ops, last, stateDir, log, client>>

\* one iteration: a known path is skipped, an unknown one gets a record and
\* the registry is saved when i + 1 is a multiple of BATCH_SIZE or i is last
ScanItem ==
  /\ proc.pc = "loop"
  /\ proc.i <= Len(proc.found)
  /\ LET file == proc.found[proc.i]
         st == mem["scan"].files
         saveImmediately == proc.i % BATCH_SIZE = 0 \/ proc.i = Len(proc.found)
     IN IF isFileKnown(st, file)
          THEN /\ proc' = [proc EXCEPT !.i = @ + 1]
               /\ UNCHANGED <<disk, mem, fresh>>
          ELSE /\ mem' = SetMem("scan", Append(st, NewRecord(fresh, file, "invoice")))
               /\ fresh' = fresh + 1
               /\ disk' = IF saveImmediately
                            THEN saveState(Append(st, NewRecord(fresh, file, "invoice")))
                            ELSE disk
               /\ proc' = [proc EXCEPT !.i = @ + 1, !.newFilesCount = @ + 1]
  /\ UNCHANGED <<fs, cache, cacheDisk, ops, last, stateDir, log, client>>

\* after the loop: the final save, the reload and the response
ScanEnd ==
  /\ proc.pc = "loop"
  /\ proc.i > Len(proc.found)
  /\ LET saved == IF proc.newFilesCount > 0 THEN saveState(mem["scan"].files) ELSE disk
     IN /\ disk' = saved
        /\ mem' = SetMem("scan", loadState(saved))
  /\ last' = [op |-> "scan", found |-> proc.found, before |-> proc.before,
              alone |-> ops = proc.opsAtBegin, newFilesCount |-> proc.newFilesCount]
  /\ proc' = [pc |-> "idle"]
  /\ UNCHANGED <<fs, cache, cacheDisk, fresh, ops, stateDir, log, client>>

\* a small folder with requests of other routes in between, or a folder of
\* BATCH_SIZE + 3 files, the one at index BATCH_SIZE already known, which is
\* scanned with no other request
InitScan ==
  /\ \/ /\ fs = FsInit
        /\ \/ disk = << >> /\ fresh = 1
           \/ disk = DiskAnalyzed /\ fresh = 3
        /\ ops = 0
     \/ /\ fs = [q \in {[Path("f", "png") EXCEPT !.idx = k] : k \in 1..(BATCH_SIZE + 3)} |-> 1]
        /\ disk = << NewRecord(1, findFiles(fs)[BATCH_SIZE], "invoice") >>
        /\ fresh = 2
        /\ ops = MaxOps
  /\ cacheDisk = << >>
  /\ mem = MemInit
  /\ cache = [init |-> FALSE, entries |-> << >>]
  /\ last = [op |-> "start"]
  /\ stateDir = << >>
  /\ proc = [pc |-> "idle"]
  /\ log = << >>
  /\ client = [pc |-> "idle"]

NextScan ==
  \/ ScanBegin
  \/ ScanItem
  \/ ScanEnd
  \/ ClearState
  \/ AnalyzeBatch
  \/ ExternalDelete

SpecScan == InitScan /\ [][NextScan]_vars

(***************************************************************************)
(* SpecFail: requests during which the state directory rejects writes      *)
(* (disk full, read-only): every saveState() the handler calls throws.     *)
(* The folder holds fewer than BATCH_SIZE files, so the scan loop saves    *)
(* on its last item only.                                                  *)
(***************************************************************************)
\* POST /api/update-invoicedata: the record is changed in this.state, then
\* saveState throws and the catch block answers 500
EditSaveFails ==
  /\ Served
  /\ \E id \in ReqIds, data \in Fields :
       LET st == Lazy("upd") IN
       /\ HasId(st, id)
       /\ mem' = SetMem("upd", updateInvoiceData(st, id, data))
       /\ last' = [op |-> "editSaveFails", route |-> "upd", status |-> 500, before |-> st]
  /\ UNCHANGED <<fs, disk, cache, cacheDisk, fresh>>

\* PUT /api/records: Object.assign on the record of this.state, then saveState
\* throws and the catch block answers 500
PutSaveFails ==
  /\ Served
  /\ \E id \in ReqIds, data \in Fields :
       LET st == Lazy("put") IN
       /\ HasId(st, id)
       /\ mem' = SetMem("put", putRecord(st, id, data))
       /\ last' = [op |-> "putSaveFails", route |-> "put", status |-> 500, before |-> st]
  /\ UNCHANGED <<fs, disk, cache, cacheDisk, fresh>>

\* POST /api/scan.  cleanupNonExistentFiles assigns the cleaned list and
\* throws from its save (500).  Otherwise createFileInfo pushes every
\* unknown file; the save of the last item throws inside the loop's try, so
\* that item is not counted; the final save runs if the count is positive and
\* throws (500); with a count of 0 the handler reloads and answers 200.
ScanSaveFails ==
  /\ Served
  /\ LET st0 == Lazy("scan")
         cleaned == cleanupNonExistentFiles(st0, fs)
         found == findFiles(fs)
         st2 == ScanLoop(found, cleaned, fresh)
         created == Len(st2) - Len(cleaned)
         lastIsNew == found # << >> /\ ~isFileKnown(cleaned, found[Len(found)])
         newFilesCount == IF lastIsNew THEN created - 1 ELSE created
     IN /\ Len(cleaned) < Len(st0) \/ created > 0
        /\ fresh + created <= MaxFresh + 1
        /\ IF Len(cleaned) < Len(st0)
             THEN /\ mem' = SetMem("scan", cleaned)
                  /\ fresh' = fresh
                  /\ last' = [op |-> "scanSaveFails", route |-> "scan", status |-> 500,
                              before |-> st0]
           ELSE IF newFilesCount > 0
             THEN /\ mem' = SetMem("scan", st2)
                  /\ fresh' = fresh + created
                  /\ last' = [op |-> "scanSaveFails", route |-> "scan", status |-> 500,
                              before |-> st0]
           ELSE /\ mem' = SetMem("scan", loadState(disk))
                /\ fresh' = fresh + created
                /\ last' = [op |-> "scanSaveFails", route |-> "scan", status |-> 200,
                            before |-> st0]
  /\ UNCHANGED <<fs, disk, cache, cacheDisk>>

NextFail ==
  \/ Scan
  \/ UpdateInvoiceData
  \/ RecordsPut
  \/ ExternalDelete
  \/ EditSaveFails
  \/ PutSaveFails
  \/ ScanSaveFails

SpecFail == Init /\ [][NextFail]_vars

(***************************************************************************)
(* SpecCrash: the process dies in an analyze-batch request after           *)
(* cacheResult has saved the cache for an item and before saveState is     *)
(* reached.  The next request is served by a new process, whose route      *)
(* modules have loaded nothing yet.                                        *)
(***************************************************************************)
\* `ids` are the items the handler got through; the last of them was
\* extracted and cached when the process died
AnalyzeCrash ==
  /\ Served
  /\ \E ids \in IdLists, forceReanalyze \in BOOLEAN :
     \E outs \in [1..Len(ids) -> Outcomes] :
       LET c0 == IF cache.init THEN cache.entries ELSE cacheDisk
           r == AnalyzeLoop(ids, outs, forceReanalyze, loadState(disk), c0, fs, <<>>)
       IN /\ r.results[Len(ids)].kind = "analyzed"
          /\ cacheDisk' = r.cache
          /\ cache' = [init |-> FALSE, entries |-> << >>]
          /\ mem' = MemInit
          /\ last' = [op |-> "crash", id |-> ids[Len(ids)],
                      data |-> r.results[Len(ids)].after.data]
  /\ UNCHANGED <<fs, disk, fresh>>

\* the folder has been scanned; nothing, or everything, has been analyzed
InitCrash ==
  /\ fs = FsInit
  /\ \/ /\ disk = << NewRecord(1, Path("a", "png"), "invoice"),
                     NewRecord(2, Path("b", "png"), "invoice") >>
        /\ cacheDisk = << >>
     \/ disk = DiskAnalyzed /\ cacheDisk = CacheAnalyzed
  /\ fresh = 3
  /\ mem = MemInit
  /\ cache = [init |-> FALSE, entries |-> << >>]
  /\ ops = 0
  /\ last = [op |-> "start"]
  /\ stateDir = << >>
  /\ proc = [pc |-> "idle"]
  /\ log = << >>
  /\ client = [pc |-> "idle"]

NextCrash ==
  \/ AnalyzeBatch
  \/ AnalyzeCrash
  \/ UpdateInvoiceData
  \/ ExternalDelete

SpecCrash == InitCrash /\ [][NextCrash]_vars

(***************************************************************************)
(* SpecRetry: one forced analyze-batch request, attempt by attempt.        *)
(* LlmService.extractDocumentData tries the vision call up to MAX_RETRIES  *)
(* times; every attempt ends, with a result or with an error.  The         *)
(* handler's steps are taken with weak fairness: a request that can go on  *)
(* does go on.                                                             *)
(***************************************************************************)
MAX_RETRIES == 3
MaxItems == 3

\* an extraction that never gives up
GivesUp_never(retries) == FALSE

\* catch: `if (retries === MAX_RETRIES) throw error`, else the loop condition
\* `retries < MAX_RETRIES` is tested again
GivesUp(retries) == retries = MAX_RETRIES \/ ~(retries < MAX_RETRIES)

RetryLists == UNION {[1..n -> {0, 1, 2}] : n \in 1..MaxItems}

\* the loop head: unknown id, bad record, or the call of processFile
RetryItem ==
  /\ proc.pc = "item"
  /\ proc.i <= Len(proc.ids)
  /\ LET id == proc.ids[proc.i]
         skip(why) == proc' = [proc EXCEPT !.i = @ + 1, !.outcome[proc.i] = why]
     IN IF ~HasId(proc.st, id) THEN skip("notfound")
        ELSE IF SkipBad(getFileById(proc.st, id)) THEN skip("badskip")
        ELSE proc' = [proc EXCEPT !.pc = "attempt", !.retries = 0]
  /\ UNCHANGED <<fs, disk, mem, cache, cacheDisk, fresh, ops, last, stateDir, log, client>>

\* an attempt returns the parsed response: the record is analyzed
AttemptReturns ==
  /\ proc.pc = "attempt"
  /\ \E data \in Fields :
       LET id == proc.ids[proc.i] IN
       proc' = [proc EXCEPT !.pc = "item", !.i = @ + 1,
                            !.calls[proc.i] = @ + 1,
                            !.outcome[proc.i] = "analyzed",
                            !.st = UpdateRecord(@, id, Analyzed(getFileById(@, id), data))]
  /\ UNCHANGED <<fs, disk, mem, cache, cacheDisk, fresh, ops, last, stateDir, log, client>>

\* an attempt throws: retry after RETRY_DELAY, or rethrow to the handler,
\* whose catch block marks the record bad and goes on
AttemptThrows ==
  /\ proc.pc = "attempt"
  /\ LET id == proc.ids[proc.i]
         retries == proc.retries + 1
         rec == getFileById(proc.st, id)
     IN IF GivesUp(retries)
          THEN proc' = [proc EXCEPT !.pc = "item", !.i = @ + 1,
                                    !.calls[proc.i] = @ + 1,
                                    !.retries = retries,
                                    !.outcome[proc.i] = "failed",
                                    !.st = UpdateRecord(@, id,
                                             [rec EXCEPT !.status = "bad",
                                                         !.error = "Error analyzing file",
                                                         !.lastModified = @ + 1])]
        ELSE proc' = [proc EXCEPT !.calls[proc.i] = @ + 1, !.retries = retries]
  /\ UNCHANGED <<fs, disk, mem, cache, cacheDisk, fresh, ops, last, stateDir, log, client>>

\* after the loop: saveState and the response
RetryRespond ==
  /\ proc.pc = "item"
  /\ proc.i > Len(proc.ids)
  /\ disk' = saveState(proc.st)
  /\ proc' = [proc EXCEPT !.pc = "done"]
  /\ last' = [op |-> "analyze", ids |-> proc.ids, outcome |-> proc.outcome]
  /\ UNCHANGED <<fs, mem, cache, cacheDisk, fresh, ops, stateDir, log, client>>

InitRetry ==
  /\ fs = FsInit
  /\ disk \in {DiskAnalyzed,
               << NewRecord(1, Path("a", "png"), "invoice"),
                  [NewRecord(2, Path("b", "png"), "invoice")
                     EXCEPT !.status = "bad", !.error = "Error analyzing file"] >>}
  /\ \E ids \in RetryLists :
       proc = [pc |-> "item", ids |-> ids, i |-> 1, retries |-> 0, st |-> loadState(disk),
               calls |-> [k \in 1..Len(ids) |-> 0],
               outcome |-> [k \in 1..Len(ids) |-> "none"]]
  /\ cacheDisk = << >> /\ fresh = 3
  /\ mem = MemInit
  /\ cache = [init |-> FALSE, entries |-> << >>]
  /\ ops = 0
  /\ last = [op |-> "start"]
  /\ stateDir = << >>
  /\ log = << >>
  /\ client = [pc |-> "idle"]

NextRetry == RetryItem \/ AttemptReturns \/ AttemptThrows \/ RetryRespond

SpecRetry == InitRetry /\ [][NextRetry]_vars /\ WF_vars(NextRetry)

(***************************************************************************)
(* SpecRace: two overlapping rename requests (rename-files-batch or        *)
(* rename-file), step by step.  A handler runs until its next await: the   *)
(* availability check (fs.access) and fs.rename are separate awaits, and   *)
(* no lock is taken.  fs.rename replaces an existing target.               *)
(***************************************************************************)
RaceKinds == {"batch", "single"}

RaceAfterItem(q) == IF q.kind = "batch" /\ q.i < Len(q.ids) THEN "check" ELSE "save"

RaceAnswer(r, code) == proc' = [proc EXCEPT !.req[r].pc = "done", !.req[r].code = code]

\* await stateService.loadState()
RaceLoad(r) ==
  /\ proc.req[r].pc = "load"
  /\ proc' = [proc EXCEPT !.req[r].st = loadState(disk), !.req[r].pc = "check"]
  /\ UNCHANGED <<fs, disk, mem, cache, cacheDisk, fresh, ops, last, stateDir, log, client>>

\* the record, the proposed name and the availability checks, up to the call
\* of fs.rename
RaceCheck(r) ==
  /\ proc.req[r].pc = "check"
  /\ LET q == proc.req[r]
         id == q.ids[q.i]
         fail(why) ==
           IF q.kind = "single" THEN RaceAnswer(r, why)
           ELSE proc' = [proc EXCEPT !.req[r].pc = RaceAfterItem(q),
                                     !.req[r].i = q.i + 1,
                                     !.req[r].results = Append(@, RenameFail(id, why))]
     IN IF ~HasId(q.st, id) THEN fail("Record not found")
        ELSE LET record == getFileById(q.st, id)
                 basePath == generateFileName(record)
             IN IF basePath = record.currentPath THEN fail("No new filename generated")
                ELSE IF q.kind = "single" /\ Exists(fs, basePath)
                  THEN fail("File already exists")
                ELSE IF q.kind = "single" /\ ~Exists(fs, record.currentPath)
                  THEN fail("Source file not accessible")
                ELSE proc' = [proc EXCEPT
                       !.req[r].pc = "rename",
                       !.req[r].target = IF q.kind = "single" THEN basePath
                                         ELSE generateUniquePath(basePath, q.usedPaths, fs)]
  /\ UNCHANGED <<fs, disk, mem, cache, cacheDisk, fresh, ops, last, stateDir, log, client>>

\* await fs.rename(absOldPath, newPath)
RaceRename(r) ==
  /\ proc.req[r].pc = "rename"
  /\ LET q == proc.req[r]
         id == q.ids[q.i]
         record == getFileById(q.st, id)
     IN IF ~Exists(fs, record.currentPath)
          THEN /\ fs' = fs
               /\ IF q.kind = "single" THEN RaceAnswer(r, "ENOENT")
                  ELSE proc' = [proc EXCEPT !.req[r].pc = RaceAfterItem(q),
                                            !.req[r].i = q.i + 1,
                                            !.req[r].results = Append(@, RenameFail(id, "ENOENT"))]
        ELSE /\ fs' = FsRename(fs, record.currentPath, q.target)
             /\ proc' = [proc EXCEPT
                  !.req[r].pc = RaceAfterItem(q),
                  !.req[r].i = q.i + 1,
                  !.req[r].usedPaths = @ \cup {q.target},
                  !.req[r].st = UpdateRecord(@, id, [record EXCEPT !.currentPath = q.target,
                                                                   !.lastModified = @ + 1]),
                  !.req[r].updated = Append(@, id),
                  !.req[r].renames = Append(@, [from |-> record.currentPath, to |-> q.target,
                                                replaced |-> Exists(fs, q.target)])]
  /\ UNCHANGED <<disk, mem, cache, cacheDisk, fresh, ops, last, stateDir, log, client>>

\* loadState again, the renamed paths are put into the reloaded records, saveState
RaceSave(r) ==
  /\ proc.req[r].pc = "save"
  /\ LET q == proc.req[r] IN
       /\ disk' = IF q.updated # << >>
                    THEN saveState(ApplyRenames(loadState(disk), q.st, q.updated))
                    ELSE disk
       /\ RaceAnswer(r, "ok")
  /\ UNCHANGED <<fs, mem, cache, cacheDisk, fresh, ops, last, stateDir, log, client>>

InitRace ==
  /\ fs = FsInit /\ disk = DiskAnalyzed /\ cacheDisk = CacheAnalyzed /\ fresh = 3
  /\ \E k1 \in RaceKinds, k2 \in RaceKinds :
     \E l1 \in {<< 1 >>, << 1, 2 >>}, l2 \in {<< 2 >>, << 2, 1 >>} :
       /\ (k1 = "single" => Len(l1) = 1) /\ (k2 = "single" => Len(l2) = 1)
       /\ proc = [req |-> [r \in Reqs |->
                    [kind |-> IF r = 1 THEN k1 ELSE k2,
                     ids |-> IF r = 1 THEN l1 ELSE l2,
                     i |-> 1, pc |-> "load", code |-> "none", st |-> << >>,
                     target |-> Path("", ""), usedPaths |-> {}, updated |-> << >>,
                     results |-> << >>, renames |-> << >>]]]
  /\ mem = MemInit
  /\ cache = [init |-> FALSE, entries |-> << >>]
  /\ ops = 0
  /\ last = [op |-> "start"]
  /\ stateDir = << >>
  /\ log = << >>
  /\ client = [pc |-> "idle"]

NextRace ==
  \E r \in Reqs :
    \/ RaceLoad(r)
    \/ RaceCheck(r)
    \/ RaceRename(r)
    \/ RaceSave(r)

SpecRace == InitRace /\ [][NextRace]_vars

(***************************************************************************)
(* SpecStop: the store's stop flag across runs.  stopAnalysis, analyzeAll  *)
(* and renameAll are thunks of the files slice; shouldStopAnalysis is the  *)
(* one flag both runs read.  The server's part of a run is one step here.  *)
(***************************************************************************)
\* state.files.files.filter(analyzed, with a proposed name that differs), as ids
filesToRename(files) ==
  LET picked == SelectSeq(files, LAMBDA file :
                  /\ file.status = "analyzed"
                  /\ generateFileName(file).base # ""
                  /\ generateFileName(file) # file.currentPath)
  IN [i \in 1..Len(picked) |-> picked[i].id]

StoreIdle ==
  [pc |-> "idle", isAnalyzingAll |-> FALSE, isRenamingAll |-> FALSE,
   shouldStopAnalysis |-> FALSE, todo |-> << >>, index |-> 0,
   idleStop |-> FALSE, run |-> [kind |-> "none"]]

\* dispatch(stopAnalysis()): pending, setShouldStopAnalysis(true), fulfilled
StopDispatch ==
  /\ ~client.shouldStopAnalysis
  /\ client' = [client EXCEPT !.shouldStopAnalysis = TRUE,
                              !.idleStop = @ \/ client.pc = "idle"]
  /\ UNCHANGED <<fs, disk, mem, cache, cacheDisk, fresh, ops, last, stateDir, proc, log>>

\* dispatch(analyzeAll()): the pending reducer clears the flag, then the filter
AnalyzeAllStart ==
  /\ client.pc = "idle"
  /\ ops < MaxOps /\ ops' = ops + 1
  /\ LET run(outcome) == [kind |-> "analyzeAll", afterIdleStop |-> client.idleStop,
                          outcome |-> outcome, flagAtEntry |-> FALSE]
     IN client' =
          IF filesToAnalyze(disk) = << >>
            THEN [client EXCEPT !.shouldStopAnalysis = FALSE, !.idleStop = FALSE,
                                !.run = run("No files to analyze")]
            ELSE [client EXCEPT !.pc = "analyzing", !.isAnalyzingAll = TRUE,
                                !.shouldStopAnalysis = FALSE, !.idleStop = FALSE,
                                !.todo = filesToAnalyze(disk), !.index = 1,
                                !.run = run("running")]
  /\ UNCHANGED <<fs, disk, mem, cache, cacheDisk, fresh, last, stateDir, proc, log>>

\* one turn of the loop: the end of the list or the flag ends the run (the
\* fulfilled reducer), otherwise one analyze-batch request for the file
AnalyzeAllTurn ==
  /\ client.pc = "analyzing"
  /\ IF client.index > Len(client.todo) \/ ShouldBreak(client)
       THEN /\ client' = [client EXCEPT !.pc = "idle", !.isAnalyzingAll = FALSE,
                                        !.shouldStopAnalysis = FALSE,
                                        !.run.outcome = IF client.index > Len(client.todo)
                                                          THEN "completed" ELSE "stopped"]
            /\ UNCHANGED <<disk, cacheDisk>>
       ELSE \E out \in Outcomes :
              LET r == AnalyzeLoop(<< client.todo[client.index] >>, << out >>, FALSE,
                                   loadState(disk), cacheDisk, fs, << >>)
              IN /\ disk' = saveState(r.st)
                 /\ cacheDisk' = r.cache
                 /\ client' = [client EXCEPT !.index = @ + 1]
  /\ UNCHANGED <<fs, mem, cache, fresh, ops, last, stateDir, proc, log>>

\* dispatch(renameAll()): the pending reducer, the filter, the flag check
RenameAllStart ==
  /\ client.pc = "idle"
  /\ ops < MaxOps /\ ops' = ops + 1
  /\ LET run(outcome) == [kind |-> "renameAll", afterIdleStop |-> client.idleStop,
                          outcome |-> outcome, results |-> << >>,
                          flagAtEntry |-> client.shouldStopAnalysis]
     IN client' =
          IF filesToRename(disk) = << >>
            THEN [client EXCEPT !.run = run("No files to rename")]
          ELSE IF client.shouldStopAnalysis
            THEN [client EXCEPT !.run = run("Operation cancelled")]
          ELSE [client EXCEPT !.pc = "renaming", !.isRenamingAll = TRUE,
                              !.todo = filesToRename(disk), !.run = run("running")]
  /\ UNCHANGED <<fs, disk, mem, cache, cacheDisk, fresh, last, stateDir, proc, log>>

\* the one rename-files-batch request of the run and the fulfilled reducer
RenameAllRequest ==
  /\ client.pc = "renaming"
  /\ LET r == RenameLoop(client.todo, loadState(disk), fs, {}, << >>, << >>) IN
       /\ fs' = r.files
       /\ disk' = IF r.updated # << >>
                    THEN saveState(ApplyRenames(loadState(disk), r.st, r.updated))
                    ELSE disk
       /\ client' = [client EXCEPT !.pc = "idle", !.isRenamingAll = FALSE,
                                   !.run.outcome = "completed",
                                   !.run.results = r.results]
  /\ UNCHANGED <<mem, cache, cacheDisk, fresh, ops, last, stateDir, proc, log>>

InitStop ==
  /\ disk \in RunSnapshots \cup {DiskRenamed}
  /\ fs = IF disk = DiskRenamed
            THEN FsRename(FsInit, Path("a", "png"), DiskRenamed[1].currentPath)
            ELSE FsInit
  /\ cacheDisk \in {<< >>, CacheAnalyzed}
  /\ fresh = 4
  /\ mem = MemInit
  /\ cache = [init |-> FALSE, entries |-> << >>]
  /\ ops = 0
  /\ last = [op |-> "start"]
  /\ stateDir = << >>
  /\ proc = [pc |-> "idle"]
  /\ log = << >>
  /\ client = StoreIdle

NextStop ==
  \/ StopDispatch
  \/ AnalyzeAllStart
  \/ AnalyzeAllTurn
  \/ RenameAllStart
  \/ RenameAllRequest

SpecStop == InitStop /\ [][NextStop]_vars

(***************************************************************************)
(* SpecMerge: merge requests on folders that already hold a PDF with the   *)
(* first source's name, or a file with a source's retirement name.         *)
(***************************************************************************)
InitMerge ==
  /\ \/ fs = FsInit /\ disk = DiskAnalyzed
     \* a.pdf lies next to a.png and was scanned with it
     \/ /\ fs = FsWrite(FsInit, Path("a", "pdf"), 3)
        /\ disk = Append(DiskAnalyzed, NewRecord(3, Path("a", "pdf"), "invoice"))
     \* a.pdf appeared after the scan
     \/ fs = FsWrite(FsInit, Path("a", "pdf"), 3) /\ disk = DiskAnalyzed
     \* a file with the retirement name of a.png
     \/ fs = FsWrite(FsInit, DeletePath(Path("a", "png")), 3) /\ disk = DiskAnalyzed
  /\ cacheDisk = CacheAnalyzed
  /\ fresh = 4
  /\ mem = MemInit
  /\ cache = [init |-> FALSE, entries |-> << >>]
  /\ ops = 0
  /\ last = [op |-> "start"]
  /\ stateDir = << >>
  /\ proc = [pc |-> "idle"]
  /\ log = << >>
  /\ client = [pc |-> "idle"]

NextMerge ==
  \/ Merge
  \/ Scan
  \/ ExternalDelete

SpecMerge == InitMerge /\ [][NextMerge]_vars

(***************************************************************************)
(* SpecClear: the cache route and the analyze route.  Each route module    *)
(* has its own CacheService: the cache route's is loaded on its first      *)
(* request; the analyze route's is loaded on its first request and again   *)
(* at the end of every analyze request (refreshCache).  proc.route is the  *)
(* cache route's instance, `cache` the analyze route's.                    *)
(***************************************************************************)
RouteCache == IF proc.route.init THEN proc.route.entries ELSE cacheDisk

\* DELETE /api/cache: clearCache and its saveCache
CacheDelete ==
  /\ ops < MaxOps /\ ops' = ops + 1
  /\ cacheDisk' = << >>
  /\ proc' = [proc EXCEPT !.route = [init |-> TRUE, entries |-> << >>], !.cleared = TRUE]
  /\ last' = [op |-> "cacheClear", removed |-> RouteCache]
  /\ UNCHANGED <<fs, disk, mem, cache, fresh, stateDir, log, client>>

\* POST /api/cache {action: 'removePdfs'}: `late` are the entries whose
\* timestamp lies after minDate
CacheRemovePdfs ==
  /\ ops < MaxOps /\ ops' = ops + 1
  /\ \E late \in SUBSET (1..Len(RouteCache)) :
       LET kept == SelectSeq([i \in 1..Len(RouteCache) |-> [i |-> i, e |-> RouteCache[i]]],
                             LAMBDA x : x.e.originalPath.ext # "pdf" \/ x.i \notin late)
           entries == [n \in 1..Len(kept) |-> kept[n].e]
       IN /\ cacheDisk' = entries
          /\ proc' = [proc EXCEPT !.route = [init |-> TRUE, entries |-> entries],
                                  !.cleared = TRUE]
          /\ last' = [op |-> "cachePrune",
                      removed |-> SelectSeq(RouteCache, LAMBDA e : e \notin Range(entries))]
  /\ UNCHANGED <<fs, disk, mem, cache, fresh, stateDir, log, client>>

InitClear ==
  /\ fs = FsWrite(FsInit, Path("d", "pdf"), 3)
  /\ disk = Append(DiskAnalyzed, Analyzed(NewRecord(3, Path("d", "pdf"), "invoice"), "DX"))
  /\ cacheDisk = cacheResult(CacheAnalyzed, fs, Path("d", "pdf"), "DX", "invoice")
  \* before the analyze route's first request, or after one
  /\ cache \in {[init |-> FALSE, entries |-> << >>], [init |-> TRUE, entries |-> cacheDisk]}
  /\ proc = [pc |-> "idle", route |-> [init |-> FALSE, entries |-> << >>], cleared |-> FALSE]
  /\ fresh = 4
  /\ mem = MemInit
  /\ ops = 0
  /\ last = [op |-> "start"]
  /\ stateDir = << >>
  /\ log = << >>
  /\ client = [pc |-> "idle"]

NextClear ==
  \/ AnalyzeBatch
  \/ CacheDelete
  \/ CacheRemovePdfs

SpecClear == InitClear /\ [][NextClear]_vars

(***************************************************************************)
(* SpecRound: a process saves the registry it holds (saveState, the whole  *)
(* call) and a process started afterwards loads it (loadState on a file    *)
(* that parses).  The registries hold records in every condition the       *)
(* routes leave them in.                                                   *)
(***************************************************************************)
\* the conditions of a record: new, analyzed, analyzed and renamed, failed
\* with and without fields of an earlier analysis, reset after a failure
RecordStates(id, p) ==
  LET fresh0 == NewRecord(id, p, "invoice")
      failed(r) == [r EXCEPT !.status = "bad", !.error = "Error analyzing file",
                             !.lastModified = @ + 1]
  IN {fresh0, failed(fresh0)}
       \cup UNION {{Analyzed(fresh0, d),
                    [Analyzed(fresh0, d) EXCEPT !.currentPath = Path(NameOf(d), p.ext),
                                                !.lastModified = @ + 1],
                    failed(Analyzed(fresh0, d)),
                    [failed(Analyzed(fresh0, d)) EXCEPT !.status = "new", !.error = NoError,
                                                       !.lastModified = @ + 1]} :
                   d \in Fields}

RoundRegistries ==
  {<< >>}
    \cup {<<r>> : r \in RecordStates(1, Path("a", "png"))}
    \cup {<<r, q>> : r \in RecordStates(1, Path("a", "png")),
                     q \in RecordStates(2, Path("b", "pdf"))}

\* saveState() of the registry the process holds
RoundSave ==
  /\ proc.pc = "holding"
  /\ stateDir' = savedDir(stateDir, proc.state, 1)
  /\ proc' = [proc EXCEPT !.pc = "saved"]
  /\ UNCHANGED <<fs, disk, mem, cache, cacheDisk, fresh, ops, last, log, client>>

\* loadState() in a new process: readFile and JSON.parse
RoundLoad ==
  /\ proc.pc = "saved"
  /\ LET parsed == JSONparse(stateDir[StateFile]) IN
       /\ parsed.ok
       /\ proc' = [proc EXCEPT !.pc = "loaded", !.loaded = KnownFilesOf(parsed.val)]
  /\ UNCHANGED <<fs, disk, mem, cache, cacheDisk, fresh, ops, last, stateDir, log, client>>

InitRound ==
  /\ \E st \in RoundRegistries :
       proc = [pc |-> "holding", state |-> st, loaded |-> << >>]
  /\ stateDir \in {<< >>, FsWrite(<< >>, StateFile, jsonString(DiskAnalyzed))}
  /\ fs = FsInit /\ disk = << >> /\ cacheDisk = << >> /\ fresh = 1
  /\ mem = MemInit
  /\ cache = [init |-> FALSE, entries |-> << >>]
  /\ ops = 0
  /\ last = [op |-> "start"]
  /\ log = << >>
  /\ client = [pc |-> "idle"]

NextRound == RoundSave \/ RoundLoad

SpecRound == InitRound /\ [][NextRound]_vars

(***************************************************************************)
(* Filename policy as text.  A string is the sequence of its characters.   *)
(* generateFileNameText is generateFileName computed on the characters of  *)
(* the path and of the extracted fields; a record is the FileInfo with     *)
(* its data field absent when the code sees `undefined`, and data maps the *)
(* keys present in the object to their strings.                            *)
(***************************************************************************)
IllegalChars == {"<", ">", ":", "\"", "/", "\\", "|", "?", "*", ".", ","}
WhitespaceChars == {" ", "\t", "\n"}

\* String.prototype.replace with a one-character class and the g flag
ReplaceEach(str, class, by) ==
  [i \in 1..Len(str) |-> IF str[i] \in class THEN by ELSE str[i]]

\* String.prototype.replace(/[class]+/g, by): every maximal run becomes `by`
RECURSIVE ReplaceRuns(_, _, _)
ReplaceRuns(str, class, by) ==
  IF str = << >> THEN << >>
  ELSE LET rest == ReplaceRuns(Tail(str), class, by) IN
       IF Head(str) \notin class THEN <<Head(str)>> \o rest
       ELSE IF Len(str) > 1 /\ str[2] \in class THEN rest
       ELSE <<by>> \o rest

\* removal of the leading and trailing run of a class (/^c+|c+$/g, trim())
StripEnds(str, class) ==
  LET inside == {i \in 1..Len(str) : str[i] \notin class} IN
  IF inside = {} THEN << >>
  ELSE LET lo == CHOOSE i \in inside : \A j \in inside : i <= j
           hi == CHOOSE i \in inside : \A j \in inside : j <= i
       IN SubSeq(str, lo, hi)

trim(str) == StripEnds(str, WhitespaceChars)

cleanField(field) ==
  StripEnds(ReplaceRuns(ReplaceRuns(ReplaceEach(field, IllegalChars, "_"),
                                    WhitespaceChars, "_"),
                        {"_"}, "_"),
            {"_"})

lastIndexOf(str, ch) ==
  LET at == {i \in 1..Len(str) : str[i] = ch} IN
  IF at = {} THEN 0 ELSE CHOOSE i \in at : \A j \in at : j <= i

\* str.split(ch).pop()
AfterLast(str, ch) == SubSeq(str, lastIndexOf(str, ch) + 1, Len(str))

\* currentPath.substring(0, currentPath.lastIndexOf('/'))
DirPath(currentPath) ==
  IF lastIndexOf(currentPath, "/") = 0 THEN << >>
  ELSE SubSeq(currentPath, 1, lastIndexOf(currentPath, "/") - 1)

RECURSIVE Join(_, _)
Join(parts, sep) ==
  IF parts = << >> THEN << >>
  ELSE IF Len(parts) = 1 THEN parts[1]
  ELSE parts[1] \o sep \o Join(Tail(parts), sep)

\* a builder that keeps the empty parts
NonBlank_all(parts) == parts

\* .filter(part => part && part.trim() !== '')
NonBlank(parts) == SelectSeq(parts, LAMBDA part : part # << >> /\ trim(part) # << >>)

\* destructuring with `|| ''`: an absent key and an empty string are alike
Field(data, key) == IF key \in DOMAIN data THEN data[key] ELSE << >>

\* a policy without the final validation
FinalValidation_none(newFilename, ext, dirPath, currentPath) ==
  dirPath \o <<"/">> \o trim(newFilename)

\* "Final validation: ensure the filename is not just an extension"
FinalValidation(newFilename, ext, dirPath, currentPath) ==
  LET finalFilename == trim(newFilename) IN
  IF finalFilename = << >> \/ finalFilename = <<".">> \o ext \/ finalFilename[1] = "."
    THEN currentPath
  ELSE dirPath \o <<"/">> \o finalFilename

\* a policy that reads the clock
generateFileNameText_clock(record) ==
  IF fresh = 1 THEN record.currentPath ELSE DirPath(record.currentPath) \o <<"/", "x">>

generateFileNameText(record) ==
  IF "data" \notin DOMAIN record THEN record.currentPath
  ELSE
    LET data == record.data
        filename == AfterLast(record.currentPath, "/")
        ext == AfterLast(filename, ".")
        dirPath == DirPath(record.currentPath)
        checked(newFilename) == FinalValidation(newFilename, ext, dirPath, record.currentPath)
    IN
    IF "invoice_date" \in DOMAIN data THEN
      LET currency == IF Field(data, "invoice_currency") = << >> THEN <<"E", "U", "R">>
                      ELSE Field(data, "invoice_currency")
          parts == NonBlank(<< Field(data, "invoice_date"),
                               cleanField(Field(data, "company_name")),
                               cleanField(Field(data, "description")),
                               currency \o cleanField(Field(data, "invoice_amount")) >>)
      IN IF parts = << >> THEN record.currentPath
         ELSE checked(Join(parts, <<"-">>) \o <<".">> \o ext)
    ELSE IF "movie_title" \in DOMAIN data THEN
      LET cleanTitle == cleanField(Field(data, "movie_title"))
          cleanSeason == IF Field(data, "season") # << >>
                           THEN <<"S">> \o Field(data, "season") ELSE << >>
          parts == NonBlank(<< <<"c", "o", "v", "e", "r">>,
                               cleanTitle,
                               cleanSeason,
                               cleanField(Field(data, "disc_number")),
                               cleanField(Field(data, "media_format")),
                               cleanField(Field(data, "duration")) >>)
      IN IF cleanTitle = << >> THEN record.currentPath
         ELSE checked(Join(parts, <<"-">>) \o <<".">> \o ext)
    ELSE IF "source" \in DOMAIN data THEN
      LET genericParts == NonBlank(<< cleanField(Field(data, "document_date")),
                                      cleanField(Field(data, "document_category")),
                                      cleanField(Field(data, "source")),
                                      cleanField(Field(data, "description")) >>)
      IN IF genericParts = << >> THEN record.currentPath
         ELSE checked(Join(genericParts, <<"_">>) \o <<".">> \o ext)
    ELSE record.currentPath

(***************************************************************************)
(* SpecName: the filename policy applied to records whose fields hold      *)
(* clean text, text with whitespace, with a path separator, with a leading *)
(* dot, or nothing.  The policy is asked up to MaxCalls times for the same *)
(* record while the scan folder and the clock change between the calls.    *)
(***************************************************************************)
MaxCalls == 2

\* field texts: "", "Ab", "a b", " ", "1/2", ".x", "__a"
FieldTexts == { << >>, <<"A", "b">>, <<"a", " ", "b">>, <<" ">>, <<"1", "/", "2">>,
                <<".", "x">>, <<"_", "_", "a">> }
FewTexts == { << >>, <<"A", "b">>, <<"1", "/", "2">> }

\* /d/A.pdf and /d/b.c.png
NamePaths == { <<"/", "d", "/", "A", ".", "p", "d", "f">>,
               <<"/", "d", "/", "b", ".", "c", ".", "p", "n", "g">> }

DocumentTypes == {"invoice", "movie_cover", "generic"}

InvoiceObjects ==
  { [invoice_date |-> d, company_name |-> c, description |-> t, invoice_amount |-> a,
     invoice_currency |-> u] :
      d \in FieldTexts, c \in FieldTexts, t \in FewTexts, a \in FewTexts,
      u \in FewTexts \cup {<<" ">>} }

MovieObjects ==
  { [movie_title |-> m, season |-> n, disc_number |-> k, media_format |-> f, duration |-> t] :
      m \in FieldTexts, n \in FewTexts, k \in FewTexts, f \in FewTexts, t \in FewTexts }

GenericObjects ==
  { [document_date |-> d, document_category |-> c, source |-> o, description |-> t] :
      d \in FewTexts, c \in FewTexts, o \in FieldTexts, t \in FewTexts }

\* a generic document to which an edit has added an invoice field, an object
\* with a description only, and the empty object
OtherObjects ==
  { [document_date |-> << >>, document_category |-> <<"A", "b">>, source |-> o,
     description |-> << >>, invoice_date |-> d] : o \in FewTexts, d \in FewTexts }
  \cup { [description |-> <<"A", "b">>], << >> }

\* Acme / 20240101 / Service / 100 / EUR
AcmeInvoice ==
  [invoice_date |-> <<"2", "0", "2", "4", "0", "1", "0", "1">>,
   company_name |-> <<"A", "c", "m", "e">>,
   description |-> <<"S", "e", "r", "v", "i", "c", "e">>,
   invoice_amount |-> <<"1", "0", "0">>,
   invoice_currency |-> <<"E", "U", "R">>]

NameRecords ==
  { [currentPath |-> p, documentType |-> t, data |-> o] :
      p \in NamePaths, t \in DocumentTypes,
      o \in InvoiceObjects \cup MovieObjects \cup GenericObjects \cup OtherObjects
             \cup {AcmeInvoice} }
  \cup { [currentPath |-> p, documentType |-> "invoice"] : p \in NamePaths }

\* one call of generateFileName(record), as the rename routes and the UI make it
NamePropose ==
  /\ proc.pc = "name"
  /\ Len(proc.calls) < MaxCalls
  /\ proc' = [proc EXCEPT !.calls = Append(@, [out |-> generateFileNameText(proc.record),
                                               files |-> fs, now |-> fresh])]
  /\ UNCHANGED <<fs, disk, mem, cache, cacheDisk, fresh, ops, last, stateDir, log, client>>

\* between two calls time passes and a file appears at the proposed path
NameWorld ==
  /\ proc.pc = "name"
  /\ Len(proc.calls) = 1
  /\ fresh = 1
  /\ fresh' = 2
  /\ fs' = fs \cup {proc.calls[1].out}
  /\ UNCHANGED <<disk, mem, cache, cacheDisk, ops, last, stateDir, proc, log, client>>

InitName ==
  /\ \E record \in NameRecords :
       /\ proc = [pc |-> "name", record |-> record, calls |-> << >>]
       /\ fs = {record.currentPath}
  /\ fresh = 1
  /\ disk = << >> /\ mem = MemInit /\ cache = [init |-> FALSE, entries |-> << >>]
  /\ cacheDisk = << >> /\ ops = 0 /\ last = [op |-> "start"]
  /\ stateDir = << >> /\ log = << >> /\ client = [pc |-> "idle"]

NextName == NamePropose \/ NameWorld

SpecName == InitName /\ [][NextName]_vars

(***************************************************************************)
(* Properties of the request-level specification.                          *)
(***************************************************************************)
Records(st) == {st[i] : i \in 1..Len(st)}

\* C1: after a successful merge of N >= 2 image records the registry, in the
\* route's memory and as persisted, holds none of the N source records and
\* exactly one new record, of status new, whose currentPath is the merged
\* PDF; every source file exists under its `_delete_` retirement name.
MergedInto(st, before, ids, mergedPath) ==
  /\ \A i \in 1..Len(ids) : ~HasId(st, ids[i])
  /\ LET created == {r \in Records(st) : ~HasId(before, r.id)}
     IN /\ Cardinality(created) = 1
        /\ \A r \in created : r.status = "new" /\ r.currentPath = mergedPath

C1_MergeReplacesSources ==
  (last.op = "merge" /\ last.code = "ok") =>
    /\ MergedInto(disk, last.before, last.ids, last.mergedPath)
    /\ MergedInto(mem["merge"].files, last.before, last.ids, last.mergedPath)
    /\ \A i \in 1..Len(last.ids) :
         Exists(fs, DeletePath(getFileById(last.before, last.ids[i]).currentPath))

\* C2: no two records of the registry have the same currentPath, and no two
\* have the same id.
C2_UniquePathsAndIds ==
  \A i, j \in 1..Len(disk) :
    i # j => disk[i].currentPath # disk[j].currentPath /\ disk[i].id # disk[j].id

\* C3: at every point of a save, a crash at any step included, the canonical
\* snapshot file parses and is either the complete previous snapshot or the
\* complete new one; it is missing only if no snapshot existed before the
\* save and the new one is not in place yet.
C3_SaveAtomic ==
  IF StateFile \in DOMAIN stateDir
    THEN LET text == stateDir[StateFile]
             parsed == JSONparse(text)
         IN /\ parsed.ok
            /\ \/ proc.hadFile /\ text = proc.prevText
               \/ KnownFilesOf(parsed.val) = proc.state
    ELSE ~proc.hadFile

\* C3 witness: the process crashed while the new snapshot, different from
\* the previous one, was partly written.
C3_Witness ==
  /\ proc.pc = "crashed"
  /\ proc.hadFile
  /\ tempPath \in DOMAIN stateDir
  /\ Len(stateDir[tempPath]) \in 1..(Len(jsonString(proc.state)) - 1)
  /\ jsonString(proc.state) # proc.prevText

\* the text up to the end of the k-th record of the snapshot being written
TextUpToRecord(written, k) ==
  LET text == jsonString(SubSeq(written, 1, k))
      tail == << Punct("]"), Punct(","), StrTok([s |-> "lastRun"]), Punct(":"),
                 StrTok([s |-> "now"]), Punct("}") >>
  IN SubSeq(text, 1, Len(text) - Len(tail))

IsPrefixOf(a, b) == Len(a) <= Len(b) /\ SubSeq(b, 1, Len(a)) = a

\* the number of records of the snapshot that are structurally complete in the file
CompleteRecords(data, written) ==
  LET ks == {k \in 0..Len(written) : IsPrefixOf(TextUpToRecord(written, k), data)}
  IN IF ks = {} THEN 0 ELSE CHOOSE k \in ks : \A j \in ks : j <= k

LoadedFromCorrupt == proc.pc = "done" /\ proc.corrupt

CorruptionHandled ==
  /\ \E p \in DOMAIN stateDir : p.f = "state.json.corrupted" /\ stateDir[p] = proc.data
  /\ \E i \in 1..Len(log) : log[i] = "error: State file is corrupted"
  /\ \E i \in 1..Len(log) :
       log[i] = IF proc.state # << >> THEN "warn: Recovered files from corrupted state"
                ELSE "warn: Starting with empty state due to corruption"
  /\ JSONparse(stateDir[StateFile]).ok
  /\ KnownFilesOf(JSONparse(stateDir[StateFile]).val) = proc.state

\* C4: after load() of a file that fails to parse, the corrupt file has been
\* copied to a timestamped backup, the corruption and the outcome of the
\* recovery are logged, and the registry is empty or is the prefix of the
\* written records cut at the last structurally complete record of the file.
C4_RecoversToLastComplete ==
  LoadedFromCorrupt =>
    /\ CorruptionHandled
    /\ \/ proc.state = << >>
       \/ proc.state = SubSeq(proc.written, 1, CompleteRecords(proc.data, proc.written))

\* What loadState does guarantee: the registry is some prefix of the written
\* records, every one of them structurally complete in the file.
LoadRecoversPrefix ==
  LoadedFromCorrupt =>
    /\ CorruptionHandled
    /\ Len(proc.state) <= CompleteRecords(proc.data, proc.written)
    /\ proc.state = SubSeq(proc.written, 1, Len(proc.state))

\* C5: within one rename batch the paths allocated to the renamed records
\* are pairwise distinct, and none of them was on disk (or already allocated
\* in the batch) when it was allocated.
C5_BatchAllocationsDistinct ==
  last.op = "renameBatch" =>
    \A i, j \in 1..Len(last.results) :
      LET r == last.results[i]
          q == last.results[j]
      IN r.success =>
           /\ ~r.occupied
           /\ (q.success /\ i # j) => r.newPath # q.newPath

\* C6: when the base candidate and every suffixed candidate up to the cap
\* are occupied the record is not renamed (its result is an error), and no
\* renamed record received a path that was occupied.
C6_AllocatorFailsPastCap ==
  last.op = "renameBatch" =>
    \A i \in 1..Len(last.results) :
      LET r == last.results[i] IN
        /\ r.exhausted => ~r.success
        /\ r.success => ~r.occupied

\* the registry after the updates of the completed items, in order
RECURSIVE ApplyCompleted(_, _)
ApplyCompleted(st, items) ==
  IF items = << >> THEN st
  ELSE LET it == Head(items) IN
       IF it.handled /\ HasId(st, it.id)
         THEN ApplyCompleted(
                UpdateRecord(st, it.id,
                  [getFileById(st, it.id) EXCEPT !.status = it.after.status,
                                                  !.error = it.after.error,
                                                  !.data = it.after.data,
                                                  !.lastModified = it.after.lastModified,
                                                  !.documentType = it.after.documentType]),
                Tail(items))
         ELSE ApplyCompleted(st, Tail(items))

\* C7: once a stop is requested during item k no item after k is started;
\* a run never ends with a started item that did not complete; at every
\* moment the succeeded and failed counts add up to the number of completed
\* items; the persisted registry is the initial one with the updates of the
\* completed items (plus, while a response is on its way, the whole update
\* of the item in flight), never a partly updated record.
C7_StopIsCooperative ==
  client.pc # "idle" /\ client.pc # "rejected" =>
    /\ client.stopped => client.started <= client.stopAt
    /\ client.pc = "done" => Len(client.completed) = client.started
    /\ client.processedCount + client.failedCount = Len(client.completed)
    /\ \/ disk = ApplyCompleted(client.initial, client.completed)
       \/ /\ proc.pc = "respond"
          /\ disk = ApplyCompleted(client.initial,
                       Append(client.completed,
                              [id |-> proc.id, handled |-> TRUE, after |-> proc.result.after]))

\* C7 witness: a run that was stopped while an item was in flight has ended
\* with that item completed and later items never started.
C7_Witness ==
  /\ client.pc = "done"
  /\ client.stopInFlight
  /\ client.stopAt >= 1
  /\ Len(client.completed) = client.stopAt
  /\ client.stopAt < Len(client.todo)
  /\ disk # client.initial

\* C11: mutating requests are serialized: two executions of saveState never
\* overlap (one has written the shared temp file and not yet renamed it while
\* the other does the same), every save's rename succeeds with the text that
\* save wrote, and the canonical file never holds some but not all of the
\* updates of a request that has not yet reached its own save.
C11_SavesSerialized ==
  /\ Cardinality({r \in Reqs : proc.req[r].pc = "rename"}) <= 1
  /\ \A r \in Reqs : proc.req[r].pc # "failed"
  /\ \A r \in Reqs :
       proc.req[r].pc \in {"load", "item", "save"} =>
         LET onFile == KnownFilesOf(JSONparse(stateDir[StateFile]).val)
             ids == Range(proc.req[r].ids)
             touched == {id \in ids : getFileById(onFile, id).status # "new"}
         IN touched = {} \/ touched = ids

\* C12: the cache holds at most one entry per content hash; after a put the
\* one entry of that hash carries the data just put; two paths with the same
\* bytes resolve to the same entry; a file whose bytes match no entry misses.
C12_OneEntryPerHash ==
  LET c == cache.entries IN
  /\ \A i, j \in 1..Len(c) : c[i].fileHash = c[j].fileHash => i = j
  /\ last.op = "put" =>
       \E i \in 1..Len(c) : c[i].fileHash = last.hash /\ c[i].analysisResult = last.data
  /\ \A p, q \in DOMAIN fs :
       calculateFileHash(fs, p) = calculateFileHash(fs, q) =>
         /\ HasCachedResult(c, fs, p) = HasCachedResult(c, fs, q)
         /\ HasCachedResult(c, fs, p) => getCachedResult(c, fs, p) = getCachedResult(c, fs, q)
  /\ \A p \in DOMAIN fs :
       (\A i \in 1..Len(c) : fs[c[i].originalPath] # fs[p]) => ~HasCachedResult(c, fs, p)

\* C12 witness: a put for a hash that already had an entry under another path
\* has replaced that entry, and the lookup by either path gives the new one.
C12_Witness ==
  /\ last.op = "put"
  /\ ops = 2
  /\ Len(cache.entries) = 1
  /\ cache.entries[1].originalPath = Path("c", "png")
  /\ cache.entries[1].analysisResult = "DY"
  /\ HasCachedResult(cache.entries, fs, Path("a", "png"))
  /\ ~HasCachedResult(cache.entries, fs, Path("b", "png"))

\* C13: at every point of a cache save, a crash included, the cache file
\* holds the complete previous snapshot or the complete new one.
C13_CacheSaveAtomic ==
  CacheFile \in DOMAIN stateDir =>
    \/ stateDir[CacheFile] = cacheText(cache.entries)
    \/ proc.pc \in {"open", "write", "crashed"} /\ stateDir[CacheFile] = proc.prevText

C15_ScanCompletes ==
  proc.pc = "idle" /\ last.op = "scan" /\ last.alone =>
    /\ \A p \in Range(last.found) :
         Cardinality({i \in 1..Len(disk) : disk[i].currentPath = p}) = 1
    /\ \A r \in Range(last.before) :
         r.currentPath \in Range(last.found) => r \in Range(disk)
    /\ \A r \in Range(disk) :
         r \notin Range(last.before) =>
           r.status = "new" /\ r.data = NoData /\ r.currentPath \in Range(last.found)
    /\ last.found = << >> => disk = << >>

\* C16: while a scan that started from the persisted registry runs with no
\* other request in between, the persisted records are a prefix of the
\* records in memory and at most BATCH_SIZE records are not yet persisted.
C16_ScanBatchedSaves ==
  proc.pc = "loop" /\ proc.synced /\ ops = proc.opsAtBegin =>
    LET st == mem["scan"].files IN
    /\ Len(disk) <= Len(st)
    /\ SubSeq(st, 1, Len(disk)) = disk
    /\ Len(st) - Len(disk) <= BATCH_SIZE

RenameEffect(id, old, new, others, strict) ==
  LET before == getFileById(disk, id)
      after == getFileById(disk', id)
  IN /\ Exists(fs', new) /\ fs'[new] = fs[old]
     /\ new # old
     /\ ~Exists(fs', old) \/ old \in others
     /\ HasId(disk', id)
     /\ after = [before EXCEPT !.currentPath = new, !.lastModified = after.lastModified]
     /\ after.lastModified > before.lastModified
     /\ strict => IsRenamed(after)
     /\ ~strict => (IsRenamed(after) <=> new # before.originalPath)

RenameStep(strict) ==
  /\ (last'.op = "renameFile" /\ ops' = ops + 1 /\ last'.code = "ok") =>
       /\ RenameEffect(last'.id, getFileById(disk, last'.id).currentPath,
                       generateFileName(getFileById(disk, last'.id)), {}, strict)
       /\ \A r \in Range(disk) : r.id # last'.id => r \in Range(disk')
       /\ Len(disk') = Len(disk)
  /\ (last'.op = "renameBatch" /\ ops' = ops + 1) =>
       LET ids == last'.ids
           res == last'.results
           done == {i \in 1..Len(ids) : res[i].success}
           once(i) == \A j \in 1..Len(ids) : j # i => ids[j] # ids[i]
       IN /\ \A i \in done :
               once(i) =>
                 RenameEffect(ids[i], getFileById(disk, ids[i]).currentPath, res[i].newPath,
                              {res[j].newPath : j \in done \ {i}}, strict)
          /\ \A r \in Range(disk) : (\A i \in done : ids[i] # r.id) => r \in Range(disk')
          /\ Len(disk') = Len(disk)

\* C18 as stated: after a successful rename-one or rename-all the file is at
\* the new path and not at the old one, the persisted record has the new path
\* and a later lastModified and is otherwise unchanged, the other records are
\* unchanged, and the record is 'renamed'.
C18_RenameFrame ==
  [][RenameStep(TRUE)]_vars

\* C18 amended: the same, except that the record is 'renamed' exactly when
\* the new path differs from its original path.
C18_RenameFrameAmended ==
  [][RenameStep(FALSE)]_vars

\* C18 witness: a rename-all has renamed a record; the record is persisted
\* with the new path, stamped, and is 'renamed'.
C18_Witness ==
  /\ last.op = "renameBatch"
  /\ Len(last.results) = 1
  /\ last.results[1].success
  /\ HasId(disk, last.ids[1])
  /\ getFileById(disk, last.ids[1]).currentPath = last.results[1].newPath
  /\ getFileById(disk, last.ids[1]).lastModified >= 2
  /\ IsRenamed(getFileById(disk, last.ids[1]))
  /\ Exists(fs, last.results[1].newPath)

\* a merge request the validation has to reject: fewer than two ids, an id no
\* record of the registry has, a source that is not an image, or a source
\* whose file is not on disk
MergeInvalid(fileIds) ==
  \/ Len(fileIds) < 2
  \/ \E i \in 1..Len(fileIds) :
       \/ ~HasId(disk, fileIds[i])
       \/ getFileById(disk, fileIds[i]).type # "image"
       \/ ~Exists(fs, getFileById(disk, fileIds[i]).currentPath)

\* C19: a merge called with fewer than 2 ids, with an unknown id, with a
\* non-image source or with a source missing on disk returns an error and
\* leaves the registry and every file on disk unchanged.
C19_MergeRejectsInvalid ==
  [][(last'.op = "merge" /\ ops' = ops + 1 /\ MergeInvalid(last'.ids)) =>
       /\ last'.code # "ok"
       /\ fs' = fs
       /\ disk' = disk]_vars

\* what the validation does guarantee: a request that is invalid for the
\* records the merge route holds in memory is rejected without any change
MergeRejectsInvalidInMemory ==
  [][(last'.op = "merge" /\ ops' = ops + 1) =>
       LET fileIds == last'.ids
           st == Lazy("merge")
           invalid == \/ Len(fileIds) < 2
                      \/ \E i \in 1..Len(fileIds) :
                           \/ ~HasId(st, fileIds[i])
                           \/ getFileById(st, fileIds[i]).type # "image"
                           \/ ~Exists(fs, getFileById(st, fileIds[i]).currentPath)
       IN invalid => last'.code # "ok" /\ fs' = fs /\ disk' = disk]_vars

\* C20: a record id leaves the registry only in a clear, remove-renamed,
\* clean-not-analyzed or cleanup-nonexistent request, or as a source of a
\* merge; no other request (scan, analyze, rename, manual edit) removes one.
C20_RecordsLeaveOnlyByCleanup ==
  [][LET idsOf(st) == {st[i].id : i \in 1..Len(st)}
         gone == idsOf(disk) \ idsOf(disk')
     IN gone # {} =>
          \/ last'.op \in {"clear", "removeRenamed", "cleanNotAnalyzed", "cleanupNonExistent"}
          \/ last'.op = "merge" /\ gone \subseteq {last'.ids[i] : i \in 1..Len(last'.ids)}]_vars

\* C29: a manual edit of a record's fields, through POST update-invoicedata
\* or PUT /api/records, leaves the record with status analyzed whatever its
\* status was; an edit of an id the registry does not hold answers NotFound
\* and changes nothing.
C29_EditForcesAnalyzed ==
  [][(last'.op \in {"edit", "put"} /\ ops' = ops + 1) =>
       IF HasId(disk, last'.id)
         THEN /\ last'.code = "ok"
              /\ HasId(disk', last'.id)
              /\ getFileById(disk', last'.id).status = "analyzed"
         ELSE /\ last'.code = "notfound"
              /\ disk' = disk
              /\ fs' = fs]_vars

\* C21: a mutating request whose save fails reports the failure, and its
\* route's in-memory registry holds no change the request made: it is what
\* it was before the request.
C21_FailedSaveLeavesMemoryClean ==
  (last.op \in {"editSaveFails", "putSaveFails", "scanSaveFails"}) =>
    /\ last.status = 500
    /\ mem[last.route].files = last.before

\* after a crash between the two saves both files hold complete texts: they
\* parse, and the registry read back is the registry written
CrashLeavesCompleteFiles ==
  last.op = "crash" =>
    /\ JSONparse(jsonString(disk)).ok
    /\ KnownFilesOf(JSONparse(jsonString(disk)).val) = disk
    /\ cacheText(cacheDisk)[1].k = "open"
    /\ cacheText(cacheDisk)[Len(cacheText(cacheDisk))].k = "close"

C31_RetriesBoundedAndBatchEnds ==
  /\ [](\A k \in 1..Len(proc.ids) :
          /\ proc.calls[k] <= MAX_RETRIES
          /\ proc.outcome[k] = "failed" =>
               /\ proc.calls[k] = MAX_RETRIES
               /\ getFileById(proc.st, proc.ids[k]).status = "bad"
               /\ \A j \in (k + 1)..Len(proc.ids) :
                    proc.ids[j] = proc.ids[k] => proc.calls[j] = 0)
  /\ <>(proc.pc = "done")

\* C31 witness: a request has answered after an item used up its attempts,
\* was marked bad and was skipped when its id came again, and a later item
\* was analyzed on its second attempt.
C31_Witness ==
  /\ proc.pc = "done"
  /\ Len(proc.ids) = 3
  /\ proc.outcome = <<"failed", "badskip", "analyzed">>
  /\ proc.calls = <<MAX_RETRIES, 0, 2>>
  /\ getFileById(disk, proc.ids[1]).status = "bad"

\* C32: a successful scan, remove-renamed, clean-not-analyzed, records PUT or
\* merge that changes the persisted registry leaves every persisted record
\* it keeps and does not itself address (the PUT's id, the merge's sources)
\* exactly as it was persisted: it does not put an older version of the
\* record back.
C32_NoLaterOpReverts ==
  [][(/\ last'.op \in {"scan", "removeRenamed", "cleanNotAnalyzed", "put", "merge"}
      /\ disk' # disk)
     => \A i \in 1..Len(disk) : \A j \in 1..Len(disk') :
          (/\ disk'[j].id = disk[i].id
           /\ ~(last'.op = "put" /\ last'.id = disk[i].id)
           /\ ~(last'.op = "merge" /\ disk[i].id \in Range(last'.ids)))
          => disk'[j] = disk[i]]_vars

\* C33: when two overlapping analyze requests for different records have both
\* answered with success, the persisted registry shows every record that a
\* response reported as analyzed with status analyzed and the reported fields.
C33_BothResultsPersisted ==
  (\A r \in Reqs : proc.req[r].pc = "done") =>
    LET onFile == KnownFilesOf(JSONparse(stateDir[StateFile]).val) IN
    \A r \in Reqs : \A k \in 1..Len(proc.req[r].results) :
      LET res == proc.req[r].results[k] IN
      res.kind \in {"analyzed", "hit"} =>
        /\ HasId(onFile, res.id)
        /\ getFileById(onFile, res.id).status = "analyzed"
        /\ getFileById(onFile, res.id).data = res.after.data

\* C34: a records read answers with the registry of the last completed save:
\* the full read with all its records, the incremental read with those
\* modified after `since`.
C34_ReadServesLastSave ==
  last.op = "get" =>
    last.served = IF last.full THEN disk ELSE ChangedSince(disk, last.since)

\* C35: when two rename requests overlap, no rename replaces a file that is
\* on disk, and no two renames of the two requests go to the same path.
C35_ConcurrentRenamesExclusive ==
  LET done == {x \in [r : Reqs, k : 1..2] : x.k <= Len(proc.req[x.r].renames)}
      at(x) == proc.req[x.r].renames[x.k]
  IN /\ \A x \in done : ~at(x).replaced
     /\ \A x \in done : \A y \in done : at(x).to = at(y).to => x = y

\* C36: a run that is started after a stop was requested while no run was
\* going on is not cancelled because of it, and the stop flag is false when
\* the run enters Running.
C36_IdleStopHasNoEffect ==
  client.run.kind # "none" =>
    /\ client.run.afterIdleStop => client.run.outcome # "Operation cancelled"
    /\ client.run.outcome = "running" => ~client.run.flagAtEntry

\* C37: after a rename-all in which every selected item succeeded, the next
\* rename-all selects no record: the filter of the thunk is empty on the
\* registry the run has left.
C37_RenameAllFixpoint ==
  (/\ client.pc = "idle"
   /\ client.run.kind = "renameAll"
   /\ client.run.outcome = "completed"
   /\ \A k \in 1..Len(client.run.results) : client.run.results[k].success)
  => filesToRename(disk) = << >>

\* C38: a merge request leaves every file that was on disk before it and is
\* still there with its content: neither the merged PDF nor a retired source
\* is written over an existing file.
C38_MergeOverwritesNothing ==
  [][last'.op = "merge" =>
       \A p \in DOMAIN fs \cap DOMAIN fs' : fs'[p] = fs[p]]_vars

\* C39: when a merge has answered with an error after it had changed the
\* disk, every persisted record of a source still points at an existing
\* file, and the merged PDF, if it is on disk, has a persisted record.
C39_FailedMergeConsistent ==
  last.op = "merge" /\ last.code = "error" =>
    /\ \A i \in 1..Len(last.ids) :
         HasId(disk, last.ids[i]) => Exists(fs, getFileById(disk, last.ids[i]).currentPath)
    /\ Exists(fs, last.mergedPath) => isFileKnown(disk, last.mergedPath)

\* C40: in an analyze request made after the cache was cleared or pruned, a
\* hit is served only for a hash that has an entry in the cache file, or that
\* was extracted earlier in the same request; and every entry of the cache
\* file after the request was in the file before it or belongs to a hash the
\* request has extracted.
C40_ClearedEntriesStayGone ==
  [][(proc.cleared /\ last'.op = "analyze") =>
       LET res == last'.results
           extracted(n) == {res[j].hash : j \in {j \in 1..n : res[j].kind = "analyzed"}}
       IN /\ \A k \in 1..Len(res) :
               res[k].kind = "hit" =>
                 \/ \E e \in Range(cacheDisk) : e.fileHash = res[k].hash
                 \/ res[k].hash \in extracted(k - 1)
          /\ \A e \in Range(cacheDisk') :
               e \in Range(cacheDisk) \/ e.fileHash \in extracted(Len(res))]_vars

(***************************************************************************)
(* Properties of the filename policy (SpecName).                           *)
(***************************************************************************)
\* the file name a call has computed: what follows the folder of the current
\* path in its answer
ComputedName(record, out) == SubSeq(out, Len(DirPath(record.currentPath)) + 2, Len(out))

\* C23: generateFileName answers with the unchanged current path when the
\* record has no extracted fields; any other answer is the folder of the
\* current path followed by a computed file name that is not empty, is not
\* the bare extension and does not begin with a dot.
C23_DegenerateNameKeepsPath ==
  \A i \in 1..Len(proc.calls) :
    LET record == proc.record
        out == proc.calls[i].out
        ext == AfterLast(AfterLast(record.currentPath, "/"), ".")
        name == ComputedName(record, out)
    IN /\ ("data" \notin DOMAIN record \/ DOMAIN record.data = {}) => out = record.currentPath
       /\ out # record.currentPath =>
            /\ SubSeq(out, 1, Len(out) - Len(name)) = DirPath(record.currentPath) \o <<"/">>
            /\ name # << >>
            /\ name # <<".">> \o ext
            /\ name[1] # "."

\* C23 witness: an invoice whose date begins with a dot, so that the computed
\* name would begin with a dot, was answered with the current path.
C23_Witness ==
  /\ Len(proc.calls) >= 1
  /\ "data" \in DOMAIN proc.record
  /\ "invoice_date" \in DOMAIN proc.record.data
  /\ proc.record.data["invoice_date"] = <<".", "x">>
  /\ proc.record.data["company_name"] = <<"A", "b">>
  /\ proc.calls[1].out = proc.record.currentPath

\* the invoice template filled with the five fields of `data`, each one
\* passed through `clean`
InvoiceName(record, cleanDate, cleanCurrency) ==
  LET data == record.data
      ext == AfterLast(AfterLast(record.currentPath, "/"), ".")
  IN DirPath(record.currentPath) \o <<"/">>
       \o cleanDate \o <<"-">> \o cleanField(data["company_name"]) \o <<"-">>
       \o cleanField(data["description"]) \o <<"-">>
       \o cleanCurrency \o cleanField(data["invoice_amount"]) \o <<".">> \o ext

\* an invoice whose five fields are populated: each holds text that is left
\* non-empty by the sanitization
PopulatedInvoice(record) ==
  /\ "data" \in DOMAIN record
  /\ DOMAIN record.data = {"invoice_date", "company_name", "description", "invoice_amount",
                           "invoice_currency"}
  /\ \A k \in DOMAIN record.data : cleanField(record.data[k]) # << >>

\* C24: for an invoice with date, company, description, currency and amount
\* populated the answer is the folder of the current path followed by
\* {date}-{company}-{description}-{currency}{amount}.{ext} with each field
\* sanitized; Acme / 20240101 / Service / 100 / EUR on A.pdf gives
\* 20240101-Acme-Service-EUR100.pdf.
C24_InvoiceTemplate ==
  \A i \in 1..Len(proc.calls) :
    LET record == proc.record IN
    PopulatedInvoice(record) =>
      proc.calls[i].out = InvoiceName(record, cleanField(record.data["invoice_date"]),
                                      cleanField(record.data["invoice_currency"]))

\* what holds of the invoice template: company, description and amount are
\* sanitized, the date and the currency are taken as they are; the Acme
\* invoice on /d/A.pdf is named /d/20240101-Acme-Service-EUR100.pdf
InvoiceTemplateRawDate ==
  \A i \in 1..Len(proc.calls) :
    LET record == proc.record IN
    /\ (PopulatedInvoice(record)
         /\ trim(record.data["invoice_date"]) = record.data["invoice_date"]
         /\ record.data["invoice_date"][1] # ".") =>
         proc.calls[i].out = InvoiceName(record, record.data["invoice_date"],
                                         record.data["invoice_currency"])
    /\ (PopulatedInvoice(record) /\ record.data = AcmeInvoice
         /\ record.currentPath = <<"/", "d", "/", "A", ".", "p", "d", "f">>) =>
         proc.calls[i].out =
           <<"/", "d", "/", "2", "0", "2", "4", "0", "1", "0", "1", "-", "A", "c", "m", "e", "-",
             "S", "e", "r", "v", "i", "c", "e", "-", "E", "U", "R", "1", "0", "0", ".", "p", "d", "f">>

\* a movie cover whose title is populated (sanitizes to something)
TitledCover(record) ==
  /\ "data" \in DOMAIN record
  /\ DOMAIN record.data = {"movie_title", "season", "disc_number", "media_format", "duration"}
  /\ cleanField(record.data["movie_title"]) # << >>

\* the name of a movie cover: `lead`, the title, then one part for each of
\* season, disc and format that is populated, then the duration
CoverName(record, lead) ==
  LET data == record.data
      ext == AfterLast(AfterLast(record.currentPath, "/"), ".")
      part(text) == IF text = << >> THEN << >> ELSE <<"-">> \o text
  IN DirPath(record.currentPath) \o <<"/">> \o lead \o cleanField(data["movie_title"])
       \o (IF data["season"] = << >> THEN << >> ELSE <<"-", "S">> \o data["season"])
       \o part(cleanField(data["disc_number"]))
       \o part(cleanField(data["media_format"]))
       \o part(cleanField(data["duration"]))
       \o <<".">> \o ext

\* C25 as stated: a movie cover is named {title}-{duration}.{ext}, with a
\* part for season, disc and format only when that field is populated.
C25_MovieCoverTemplate ==
  \A i \in 1..Len(proc.calls) :
    TitledCover(proc.record) => proc.calls[i].out = CoverName(proc.record, << >>)

\* C25 amended: a movie cover is named cover-{title}-{duration}.{ext}; the
\* parts S{season}, {disc} and {format} stand between the title and the
\* duration, each only when its field is populated.
C25_MovieCoverTemplateAmended ==
  \A i \in 1..Len(proc.calls) :
    TitledCover(proc.record) =>
      proc.calls[i].out = CoverName(proc.record, <<"c", "o", "v", "e", "r", "-">>)

\* C25 witness: a cover with only title and duration populated was named
\* /d/cover-Ab-Ab.pdf, and so was not given a season, disc or format part.
C25_Witness ==
  /\ Len(proc.calls) >= 1
  /\ TitledCover(proc.record)
  /\ proc.record.data = [movie_title |-> <<"A", "b">>, season |-> << >>, disc_number |-> << >>,
                         media_format |-> << >>, duration |-> <<"A", "b">>]
  /\ proc.calls[1].out = <<"/", "d", "/", "c", "o", "v", "e", "r", "-", "A", "b", "-", "A", "b",
                           ".", "p", "d", "f">>

\* C26: the file name a call proposes holds no character that is illegal in a
\* file name, no path separator and no whitespace, whatever the extracted
\* fields hold (date and currency included); no part of it begins or ends with
\* '_' or holds two '_' in a row; and the proposed path lies in the folder of
\* the current path.
C26_NameIsSanitized ==
  \A i \in 1..Len(proc.calls) :
    LET record == proc.record
        out == proc.calls[i].out
        name == ComputedName(record, out)
    IN out # record.currentPath =>
         /\ \A k \in 1..Len(name) :
              name[k] \notin {"<", ">", ":", "\"", "/", "\\", "|", "?", "*"} \cup WhitespaceChars
         /\ DirPath(out) = DirPath(record.currentPath)
         /\ name[1] # "_"
         /\ \A k \in 1..(Len(name) - 1) :
              /\ ~(name[k] = "_" /\ name[k + 1] \in {"_", "-", "."})
              /\ ~(name[k] = "-" /\ name[k + 1] = "_")

GenericName(record) ==
  LET data == record.data
      ext == AfterLast(AfterLast(record.currentPath, "/"), ".")
  IN DirPath(record.currentPath) \o <<"/">>
       \o Join(NonBlank(<< cleanField(Field(data, "document_date")),
                           cleanField(Field(data, "document_category")),
                           cleanField(Field(data, "source")),
                           cleanField(Field(data, "description")) >>), <<"_">>)
       \o <<".">> \o ext

\* C30: the template is selected by the documentType of the record: a generic
\* record with a populated generic field is named by the generic template
\* even when its fields also hold an invoice_date, and a record whose
\* populated fields hold none of the keys the templates look for is still
\* given a name (it is not left at its current path).
C30_TemplateByDocumentType ==
  \A i \in 1..Len(proc.calls) :
    LET record == proc.record
        out == proc.calls[i].out
    IN "data" \in DOMAIN record =>
         /\ (/\ record.documentType = "generic"
             /\ {"source", "document_category"} \subseteq DOMAIN record.data
             /\ cleanField(record.data["document_category"]) # << >>) =>
              out = GenericName(record)
         /\ (/\ DOMAIN record.data \cap {"invoice_date", "movie_title", "source"} = {}
             /\ \E k \in DOMAIN record.data : cleanField(record.data[k]) # << >>) =>
              out # record.currentPath

C10_StatusInvariants ==
  \A i \in 1..Len(disk) :
    /\ disk[i].status = "new" => disk[i].data = NoData
    /\ disk[i].status = "bad" => disk[i].error # NoError

====
